---- MODULE Spec2Model ----
(***************************************************************************)
(* AwsLambdaInstrumentation (packages/instrumentation-aws-lambda): one     *)
(* invocation of the patched (non-streaming) handler, from the host's call *)
(* to the delivery of the outcome.  The JavaScript execution model is      *)
(* explicit: the synchronous part of patchedHandler runs while pc is       *)
(* "inHandler", promise reactions are jobs of a FIFO microtask queue, and  *)
(* the original handler and the force-flush promises are the environment.  *)
(* A second specification, SpecWrapper, follows one wrapper (the closure of *)
(* _getPatchHandler) through several overlapping invocations, up to the    *)
(* point where each invocation's span exists: cold-start classification    *)
(* and parent resolution.                                                  *)
(***************************************************************************)
EXTENDS Integers, Sequences, FiniteSets, TLC

\* The handler under test invokes the wrapped callback at most this often.
MaxCbCalls == 1
\* SpecWrapper: the host calls the patched handler at most this often.
MaxInvocations == 3
\* SpecWrapper: the clock is followed from MaxEarly ms before the cold-start
\* threshold to MaxLate ms after it.
MaxEarly == 1
MaxLate == 2
\* SpecConcurrent: each invocation receives at most this many completion signals.
MaxSignals == 2

lambdaMaxInitInMilliseconds == 10000

(***************************************************************************)
(* JavaScript values, as far as the code inspects them: typeof, truthiness *)
(* and the message property.                                               *)
(***************************************************************************)
Null == [t |-> "null", m |-> ""]
Undefined == [t |-> "undefined", m |-> ""]
ResR == [t |-> "object", m |-> "R"]
ResR2 == [t |-> "object", m |-> "R2"]
ErrBoom == [t |-> "Error", m |-> "boom"]
ErrEmpty == [t |-> "Error", m |-> ""]
StrOops == [t |-> "string", m |-> "oops"]
StrEmpty == [t |-> "string", m |-> ""]
FlushErr == [t |-> "Error", m |-> "flush"]
\* what a throwing requestHook or responseHook throws
HookErr == [t |-> "Error", m |-> "hook"]
\* the TypeError of reading a property of undefined
TypeErr == [t |-> "Error", m |-> "Cannot read properties of undefined"]

\* the failure values a handler may use: Error objects with and without a
\* message, a string, the empty string
ErrVals == {ErrBoom, ErrEmpty, StrOops, StrEmpty}
\* what the handler may return synchronously
ReturnVals == {Undefined, ResR}

FlusherKinds == {"none", "async", "throws"}
HookKinds == {"none", "ok", "throws"}

\* process.env.AWS_LAMBDA_INITIALIZATION_TYPE
InitializationTypes == {"unset", "on-demand", "provisioned-concurrency"}

(***************************************************************************)
(* OpenTelemetry contexts, as far as _determineParent and the tracer       *)
(* inspect them: whether the context holds a span, and that span's span    *)
(* context (valid or not, remote or not, its trace id).                    *)
(***************************************************************************)
ROOT_CONTEXT == [hasSpan |-> FALSE, valid |-> FALSE, remote |-> FALSE, traceId |-> "none"]
\* propagation.extract found a valid carrier in event.headers
CarrierContext == [hasSpan |-> TRUE, valid |-> TRUE, remote |-> TRUE, traceId |-> "carrier"]
\* a context whose span has an invalid span context (all-zero ids)
InvalidContext == [hasSpan |-> TRUE, valid |-> FALSE, remote |-> FALSE, traceId |-> "zero"]
\* no carrier: propagation.extract returns otelContext.active() as it is, here
\* with a span of this process active in it
AmbientContext == [hasSpan |-> TRUE, valid |-> TRUE, remote |-> FALSE, traceId |-> "ambient"]

\* how a call eventContextExtractor(event, context) ends
Extracted(ctx) == [threw |-> FALSE, ctx |-> ctx]
ExtractorThrows == [threw |-> TRUE, ctx |-> ROOT_CONTEXT]
ExtractorOutcomes ==
  {ExtractorThrows, Extracted(ROOT_CONTEXT), Extracted(CarrierContext),
   Extracted(InvalidContext), Extracted(AmbientContext)}

\* the steps of one invocation that the model logs, in the order of the data flow
\* "classify, resolve parent, create span, request hook, handler, completion
\* signal, response hook, record exception/status, span.end(), force flush"
EventOrder ==
  <<"coldStart", "parent", "span", "requestHook", "handler", "signal",
    "responseHook", "record", "end", "flush">>

VARIABLES
  traceFlusher,    \* this._traceForceFlusher: absent, promise-returning, or throwing
  metricFlusher,   \* this._metricForceFlusher, likewise
  requestHook,     \* config.requestHook: absent, returning, or throwing
  responseHook,    \* config.responseHook, likewise
  failure,         \* the failure value the handler under test uses
  pc,              \* "idle" | "inHandler" (original.apply is on the stack) | "returned"
  spanEnded,       \* the closure variable of patchedHandler
  span,            \* the calls made on the invocation's span
  reqHookCalls,    \* number of requestHook calls
  respHookCalls,   \* the {err, res} each responseHook call received
  traceFlushCalls, \* number of calls of the trace force-flusher
  metricFlushCalls,\* number of calls of the metric force-flusher
  groups,          \* one record per _endSpan call: its flush promises and continuation
  jobs,            \* the microtask queue
  handlerPromise,  \* the promise the original handler returned
  cbCalls,         \* the (err, res) of each wrappedCallback call made by the handler
  cbThrew,         \* number of wrappedCallback calls that threw into the handler
  handlerRet,      \* how the original handler's synchronous part ended
  signals,         \* the completion signals in the order they were received
  hostRet,         \* what patchedHandler returned or threw to the host
  hostPromise,     \* the promise patchedHandler returned to the host
  hostCbCalls,     \* the (err, res) of each call of the host's own callback
  events,          \* the steps of the invocation, in the order they were taken
  originalCalls,   \* the argument list of each original.apply call
  initializationType,         \* process.env.AWS_LAMBDA_INITIALIZATION_TYPE
  passedTimeSinceHandlerLoad, \* Date.now() - lambdaStartTime, were it read now
  requestHandledBefore,       \* the closure variable of _getPatchHandler
  requestIsColdStart,         \* the closure variable of _getPatchHandler
  invocations,     \* one record per call of the patched handler, up to its span
  functionArn,     \* context.invokedFunctionArn, a string as a sequence of symbols
  lambdaEvent,     \* the event, as far as _extractFullUrl reads it
  attributes,      \* the attributes _createSpanForRequest computes from them
  originalHandler, \* the user's handler function: its name, length and own symbols
  moduleExports,   \* the module handed to the patch function, its exported handler
  moduleOps,       \* the calls of the module's patch and unpatch functions so far
  lambdaEnv,       \* process.env.AWS_LAMBDA_FUNCTION_NAME || process.env._HANDLER
  isInstrumented,  \* this._isInstrumented
  originalHandlers,\* this._originalHandlers, its entry for the handler's name
  wrappersCreated, \* number of wrappers _patchHandler has created
  globalHandler,   \* globalThis[functionName]
  exportsHandler,  \* module.exports[functionName] of the instrumentation's module
  moduleHandler,   \* the handler export of the user's module in the module cache
  definePropertyFn,\* Object.defineProperty: the built-in or the interceptor
  functionCallFn,  \* Function.prototype.call and apply: built-in or interceptor
  interceptorPatched, \* handlerPatched of _setupHandlerInterceptor
  directPatched,   \* handlerPatched of _setupDirectHandlerInterceptor
  exportsProxied,  \* module.exports has been replaced by the Proxy
  globalProxied,   \* global.globalThis has been replaced by the Proxy
  intervalActive,  \* the fallback interval is running
  routes,          \* the patching routes that have fired, in order
  hostSpans        \* the number of spans each host invocation created

\* the instrumentation's configuration and the handler under test
setup == <<traceFlusher, metricFlusher, requestHook, responseHook, failure>>
\* what the span attributes are computed from, and the attributes
request == <<functionArn, lambdaEvent, attributes>>
\* the standard instrumentation's module patching
loader == <<moduleExports, moduleOps>>
\* the custom instrumentation's patching routes
routing == <<lambdaEnv, isInstrumented, originalHandlers, wrappersCreated, globalHandler,
             exportsHandler, moduleHandler, definePropertyFn, functionCallFn,
             interceptorPatched, directPatched, exportsProxied, globalProxied,
             intervalActive, routes, hostSpans>>
patching == <<originalHandler, loader, routing>>
config == <<setup, request, initializationType, passedTimeSinceHandlerLoad, patching>>
\* the state of the wrapper that outlives an invocation
wrapper == <<requestHandledBefore, requestIsColdStart, invocations>>
\* the state of the invocation that Spec follows
invocation == <<pc, spanEnded, span, reqHookCalls, respHookCalls, traceFlushCalls,
                metricFlushCalls, groups, jobs, handlerPromise, cbCalls, cbThrew,
                handlerRet, signals, hostRet, hostPromise, hostCbCalls, events,
                originalCalls>>
vars == <<traceFlusher, metricFlusher, requestHook, responseHook, failure, pc, spanEnded,
          span, reqHookCalls, respHookCalls, traceFlushCalls, metricFlushCalls,
          groups, jobs, handlerPromise, cbCalls, cbThrew, handlerRet, signals,
          hostRet, hostPromise, hostCbCalls, events, originalCalls, initializationType,
          passedTimeSinceHandlerLoad, requestHandledBefore, requestIsColdStart,
          invocations, functionArn, lambdaEvent, attributes,
         originalHandler, moduleExports, moduleOps, lambdaEnv, isInstrumented,
         originalHandlers, wrappersCreated, globalHandler, exportsHandler, moduleHandler,
         definePropertyFn, functionCallFn, interceptorPatched, directPatched,
         exportsProxied, globalProxied, intervalActive, routes, hostSpans>>

NoSpan == [created |-> FALSE, exceptions |-> <<>>, statuses |-> <<>>, ends |-> 0]
NoPromise == [state |-> "none", val |-> Undefined]
PendingPromise == [state |-> "pending", val |-> Undefined]

\* JavaScript truthiness: if (err), if (errMessage), if (error && ...)
Truthy(v) ==
  CASE v.t \in {"null", "undefined"} -> FALSE
    [] v.t = "string" -> v.m # ""
    [] OTHER -> TRUE

(***************************************************************************)
(* The instrumentation's effects, as functions of the record st of the     *)
(* fields they touch, so that one handler step can chain several calls.    *)
(***************************************************************************)
\* escaped: an error thrown by the response hook is on its way out of the
\* statement sequence "_applyResponseHook(...); _endSpan(...)"
Cur ==
  [span |-> span, respHookCalls |-> respHookCalls,
   traceFlushCalls |-> traceFlushCalls, metricFlushCalls |-> metricFlushCalls,
   groups |-> groups, jobs |-> jobs, events |-> events, escaped |-> FALSE]

Commit(st) ==
  /\ span' = st.span
  /\ respHookCalls' = st.respHookCalls
  /\ traceFlushCalls' = st.traceFlushCalls
  /\ metricFlushCalls' = st.metricFlushCalls
  /\ groups' = st.groups
  /\ jobs' = st.jobs
  /\ events' = st.events

\* every error a hook throws is passed on to the caller of the hook's wrapper
rethrowsAlways(threw, preventThrowingError) == threw

\* safeExecuteInTheMiddle(execute, onFinish, preventThrowingError) around a hook
\* that throws an Error or not: whether the error leaves the call.  onFinish only
\* logs here.
safeExecuteRethrows(threw, preventThrowingError) == threw /\ ~preventThrowingError

\* _applyResponseHook: the hook, if configured, runs inside safeExecuteInTheMiddle
\* with preventThrowingError, so a throwing hook is logged and nothing else.
applyResponseHook(st, err, res) ==
  IF responseHook = "none"
    THEN st
    ELSE [st EXCEPT !.respHookCalls = Append(@, <<err, res>>),
                    !.events = Append(@, "responseHook"),
                    !.escaped = safeExecuteRethrows(responseHook = "throws", TRUE)]

\* setStatus is called on every span, whether or not there is an error
recordAndEndAlwaysStatus(sp, err) ==
  [sp EXCEPT !.exceptions = IF Truthy(err) THEN Append(@, err) ELSE @,
             !.statuses = Append(@, err.m),
             !.ends = @ + 1]

\* the first half of _endSpan: recordException, setStatus, span.end()
recordAndEnd(sp, err) ==
  LET s1 == IF Truthy(err) THEN [sp EXCEPT !.exceptions = Append(@, err)] ELSE sp
      errMessage == IF err.t = "string" THEN err.m
                    ELSE IF Truthy(err) THEN err.m ELSE ""
      s2 == IF errMessage # "" THEN [s1 EXCEPT !.statuses = Append(@, errMessage)] ELSE s1
  IN [s2 EXCEPT !.ends = @ + 1]

\* a Promise.all whose reaction is registered for fulfilment only: a rejection
\* releases nothing
PromiseAllFulfilledOnly(t, m) ==
  IF "rejected" \in {t, m} \/ "pending" \in {t, m} THEN "pending" ELSE "fulfilled"

\* Promise.all(flushers): fulfilled at once for an empty list, otherwise pending
\* until every element is fulfilled or one is rejected.
PromiseAll(t, m) ==
  IF "rejected" \in {t, m} THEN "rejected"
  ELSE IF "pending" \in {t, m} THEN "pending"
  ELSE "fulfilled"

\* _endSpan(span, err, callback).  Returns the new st and whether a flusher threw;
\* when one throws, _endSpan is left before Promise.all and callback is dropped.
\* _endSpan is not reached when the _applyResponseHook call before it raised.
endSpan(st, err, cont) ==
  LET sp == recordAndEnd(st.span, err)
      tThrows == traceFlusher = "throws"
      mCalled == ~tThrows /\ metricFlusher # "none"
      mThrows == mCalled /\ metricFlusher = "throws"
      threw == tThrows \/ mThrows
      t == IF traceFlusher = "async" THEN "pending" ELSE "none"
      m == IF mCalled /\ metricFlusher = "async" THEN "pending" ELSE "none"
      all == IF threw THEN "absent" ELSE PromiseAll(t, m)
      g == [cont |-> cont, trace |-> t, metric |-> m, all |-> all]
      idx == Len(st.groups) + 1
      recorded == sp.exceptions # st.span.exceptions \/ sp.statuses # st.span.statuses
      flushed == traceFlusher # "none" \/ mCalled
  IN IF st.escaped
       THEN [st |-> st, threw |-> TRUE]
       ELSE [st |-> [st EXCEPT
                       !.span = sp,
                       !.traceFlushCalls = IF traceFlusher # "none" THEN @ + 1 ELSE @,
                       !.metricFlushCalls = IF mCalled THEN @ + 1 ELSE @,
                       !.groups = Append(@, g),
                       !.jobs = IF all = "fulfilled"
                                  THEN Append(@, [kind |-> "cont", idx |-> idx])
                                  ELSE @,
                       !.events = @ \o (IF recorded THEN <<"record">> ELSE <<>>)
                                    \o <<"end">>
                                    \o (IF flushed THEN <<"flush">> ELSE <<>>)],
             threw |-> threw]

Cont(kind, err, res) == [kind |-> kind, err |-> err, res |-> res]

(***************************************************************************)
(* The start of patchedHandler: _onRequest, _determineParent and           *)
(* _createSpanForRequest run in one synchronous stretch.                   *)
(***************************************************************************)
\* the threshold itself counts as proactive initialization
proactiveInitializationInclusive(passed) == passed >= lambdaMaxInitInMilliseconds

\* _onRequest: proactiveInitialization
proactiveInitialization(passed) == passed > lambdaMaxInitInMilliseconds

\* the classification does not consult requestHandledBefore
onRequestIgnoringHandled(handledBefore, initType, passed) ==
  IF initType = "provisioned-concurrency" THEN FALSE
  ELSE ~proactiveInitialization(passed)

\* _onRequest: the value it leaves in requestIsColdStart (it leaves
\* requestHandledBefore true on every path)
onRequest(handledBefore, initType, passed) ==
  IF handledBefore THEN FALSE
  ELSE IF initType = "provisioned-concurrency" THEN FALSE
  ELSE ~proactiveInitialization(passed)

\* _determineParent.  safeExecuteInTheMiddle swallows a throw of the extractor
\* (preventThrowingError) and returns undefined; trace.getSpan(extractedContext)
\* then reads extractedContext.getValue, a TypeError on undefined.  Otherwise
\* the test is whether the context holds a span: spanContext() of any span is an
\* object, hence truthy.
determineParent(x) ==
  IF x.threw THEN [threw |-> TRUE, parent |-> ROOT_CONTEXT]
  ELSE IF x.ctx.hasSpan THEN [threw |-> FALSE, parent |-> x.ctx]
  ELSE [threw |-> FALSE, parent |-> ROOT_CONTEXT]

NoSpanCreated == [created |-> FALSE, coldstart |-> FALSE, traceId |-> "none"]

\* _createSpanForRequest: tracer.startSpan under parent with faas.coldstart.  The
\* tracer continues the parent's trace when the parent holds a span with a valid
\* span context and starts a trace of its own otherwise.
createSpanForRequest(coldStart, parent) ==
  [created |-> TRUE, coldstart |-> coldStart,
   traceId |-> IF parent.hasSpan /\ parent.valid THEN parent.traceId ELSE "fresh"]

\* patchedHandler from _onRequest to _createSpanForRequest, for an invocation
\* whose eventContextExtractor call ends as x
patchedHandlerStart(x) ==
  LET p == determineParent(x)
  IN /\ requestIsColdStart' =
          onRequest(requestHandledBefore, initializationType, passedTimeSinceHandlerLoad)
     /\ requestHandledBefore' = TRUE
     /\ invocations' = Append(invocations,
          [passed |-> passedTimeSinceHandlerLoad,
           extracted |-> x,
           classified |-> requestIsColdStart',
           threw |-> p.threw,
           parent |-> p.parent,
           span |-> IF p.threw THEN NoSpanCreated
                    ELSE createSpanForRequest(requestIsColdStart', p.parent),
           open |-> ~p.threw,
           spanEnded |-> FALSE,
           signalled |-> 0,
           conts |-> 0,
           ends |-> <<>>,
           hooks |-> <<>>,
           flagBy |-> <<>>])

(***************************************************************************)
(* The attributes of the span that depend on the event and the context.    *)
(* A string is a sequence of symbols; an optional string is Str(s) or      *)
(* Absent (undefined).                                                     *)
(***************************************************************************)
MaxArnLen == 7

Str(s) == [t |-> "string", s |-> s]
Absent == [t |-> "undefined", s |-> <<>>]
\* JavaScript truthiness of an optional string
truthy(v) == v.t = "string" /\ v.s # <<>>
\* a ?? b
nullish(a, b) == IF a.t = "undefined" THEN b ELSE a

\* the function identifiers: every string of up to MaxArnLen symbols
ArnSymbols == {":", "arn", "1"}
Arns == UNION {[1..n -> ArnSymbols] : n \in 0..MaxArnLen}
SampleArn == <<"arn", ":", "aws", ":", "x", ":", "region", ":", "123456789012", ":",
               "function", ":", "f">>

\* arn.split(':')
RECURSIVE split(_)
split(s) ==
  IF \A i \in 1..Len(s) : s[i] # ":"
    THEN <<s>>
    ELSE LET i == CHOOSE k \in 1..Len(s) : s[k] = ":" /\ \A j \in 1..(k - 1) : s[j] # ":"
         IN <<SubSeq(s, 1, i - 1)>> \o split(SubSeq(s, i + 1, Len(s)))

\* _extractAccountId: parts[4] of the source is the fifth element
extractAccountId(arn) ==
  LET parts == split(arn)
  IN IF Len(parts) >= 5 THEN Str(parts[5]) ELSE Absent

\* the events: headers in both spellings, path, rawPath, queryStringParameters
\* (absent, or an object as the sequence of its key/value pairs)
QueryTables ==
  { <<>>,
    << <<<<"a">>, <<"1">>>> >>,
    << <<<<"a">>, <<"1">>>>, <<<<"b">>, <<"2">>>> >>,
    << <<<<"k", " ">>, <<"&", "=">>>>, <<<<"a">>, <<"1">>>> >> }
Queries == {[present |-> FALSE, pairs |-> <<>>]} \cup {[present |-> TRUE, pairs |-> q] : q \in QueryTables}
NoHeaders ==
  [hasHeaders : {FALSE}, host : {Absent}, Host : {Absent}, proto : {Absent}, Proto : {Absent},
   port : {Absent}, Port : {Absent},
   path : {Absent, Str(<<>>), Str(<<"/", "p">>)},
   rawPath : {Absent, Str(<<>>), Str(<<"/", "r">>)},
   query : Queries]
WithHeaders ==
  [hasHeaders : {TRUE}, host : {Absent, Str(<<"h">>)}, Host : {Absent, Str(<<"H">>)},
   proto : {Absent, Str(<<"https">>)}, Proto : {Absent, Str(<<"http">>)},
   port : {Absent, Str(<<"443">>)}, Port : {Absent, Str(<<"80">>)},
   path : {Absent, Str(<<>>), Str(<<"/", "p">>)},
   rawPath : {Absent, Str(<<>>), Str(<<"/", "r">>)},
   query : Queries]
LambdaEvents == NoHeaders \cup WithHeaders
SampleEvent ==
  [hasHeaders |-> TRUE, host |-> Str(<<"h">>), Host |-> Absent, proto |-> Str(<<"https">>),
   Proto |-> Absent, port |-> Absent, Port |-> Absent, path |-> Str(<<"/", "p">>),
   rawPath |-> Absent, query |-> [present |-> TRUE, pairs |-> << <<<<"a">>, <<"1">>>>, <<<<"b">>, <<"2">>>> >>]]

\* encodeURIComponent on the symbols in use: the reserved ones are escaped
encodeSymbol(c) ==
  CASE c = " " -> <<"%", "2", "0">>
    [] c = "&" -> <<"%", "2", "6">>
    [] c = "=" -> <<"%", "3", "D">>
    [] c = "/" -> <<"%", "2", "F">>
    [] OTHER -> <<c>>
RECURSIVE encodeURIComponent(_)
encodeURIComponent(s) ==
  IF s = <<>> THEN <<>> ELSE encodeSymbol(Head(s)) \o encodeURIComponent(Tail(s))

\* the for-in loop of _extractFullUrl over queryStringParameters
RECURSIVE appendQuery(_, _)
appendQuery(pairs, first) ==
  IF pairs = <<>> THEN <<>>
  ELSE (IF first THEN <<"?">> ELSE <<"&">>)
         \o encodeURIComponent(Head(pairs)[1]) \o <<"=">> \o encodeURIComponent(Head(pairs)[2])
         \o appendQuery(Tail(pairs), FALSE)

\* _extractFullUrl
extractFullUrl(event) ==
  IF ~event.hasHeaders THEN Absent
  ELSE LET host == nullish(event.host, event.Host)
           proto == nullish(event.proto, event.Proto)
           port == nullish(event.port, event.Port)
       IN IF ~(truthy(proto) /\ truthy(host) /\ (truthy(event.path) \/ truthy(event.rawPath)))
            THEN Absent
            ELSE Str(proto.s \o <<":", "/", "/">> \o host.s
                       \o (IF truthy(port) THEN <<":">> \o port.s ELSE <<>>)
                       \o nullish(event.path, event.rawPath).s
                       \o (IF event.query.present THEN appendQuery(event.query.pairs, TRUE) ELSE <<>>))

\* _extractOtherEventFields: url.full is set when the URL is truthy
extractOtherEventFields(event) ==
  LET fullUrl == extractFullUrl(event)
  IN IF truthy(fullUrl) THEN fullUrl ELSE Absent

NoAttributes == [set |-> FALSE, accountId |-> Absent, urlFull |-> Absent]
\* the specifications of the handler's control flow fix the event and the context
InitRequestState ==
  /\ functionArn = SampleArn
  /\ lambdaEvent = SampleEvent
  /\ attributes = NoAttributes

\* process.env._HANDLER names the handler "<module>.handler"
functionName == "handler"
\* a function without own symbol properties
NoSymbols == [k \in {} |-> "x"]
\* a function value is the sequence of its layers: the user's function first, then
\* each wrapper around it; <<>> stands for undefined
Undefined_fn == <<>>
SampleHandler == [name |-> functionName, length |-> 3, symbols |-> NoSymbols, shimmer |-> FALSE]
SampleModule ==
  [isESM |-> FALSE, hasDefault |-> FALSE, definable |-> TRUE, replaceable |-> TRUE,
   handler |-> <<SampleHandler>>]
\* no module has been handed to the patch function
InitLoaderState ==
  /\ moduleExports = SampleModule
  /\ moduleOps = <<>>
\* CustomAwsLambdaInstrumentation after construction, before init()
InitRoutingState ==
  /\ isInstrumented = FALSE
  /\ originalHandlers = <<>>
  /\ wrappersCreated = 0
  /\ globalHandler = Undefined_fn
  /\ exportsHandler = Undefined_fn
  /\ moduleHandler = Undefined_fn
  /\ definePropertyFn = "builtin"
  /\ functionCallFn = "builtin"
  /\ interceptorPatched = FALSE
  /\ directPatched = FALSE
  /\ exportsProxied = FALSE
  /\ globalProxied = FALSE
  /\ intervalActive = FALSE
  /\ routes = <<>>
  /\ hostSpans = <<>>
\* the specifications of one wrapper fix the handler function and patch no module
InitPatchingState ==
  /\ originalHandler = SampleHandler
  /\ lambdaEnv = TRUE
  /\ InitLoaderState
  /\ InitRoutingState

\* a fresh wrapper: the closure variables of _getPatchHandler
InitWrapperState ==
  /\ requestHandledBefore = FALSE
  /\ requestIsColdStart = TRUE
  /\ invocations = <<>>

Init ==
  /\ traceFlusher \in FlusherKinds
  /\ metricFlusher \in FlusherKinds
  /\ requestHook \in HookKinds
  /\ responseHook \in HookKinds
  /\ failure \in ErrVals
  /\ initializationType = "on-demand"
  /\ passedTimeSinceHandlerLoad = 0
  /\ InitWrapperState
  /\ InitPatchingState
  /\ InitRequestState
  /\ events = <<>>
  /\ originalCalls = <<>>
  /\ pc = "idle"
  /\ spanEnded = FALSE
  /\ span = NoSpan
  /\ reqHookCalls = 0
  /\ respHookCalls = <<>>
  /\ traceFlushCalls = 0
  /\ metricFlushCalls = 0
  /\ groups = <<>>
  /\ jobs = <<>>
  /\ handlerPromise = NoPromise
  /\ cbCalls = <<>>
  /\ cbThrew = 0
  /\ handlerRet = [kind |-> "none", val |-> Undefined]
  /\ signals = <<>>
  /\ hostRet = [kind |-> "none", val |-> Undefined]
  /\ hostPromise = NoPromise
  /\ hostCbCalls = <<>>

Returned(v) == [kind |-> "value", val |-> v]
Threw(e) == [kind |-> "throw", val |-> e]

\* what the patched handler passes to the original one
HandlerArgs == <<"event", "context", "wrappedCallback">>
StreamingArgs == <<"event", "responseStream", "context">>

\* patchedHandler and patchedStreamingHandler up to original.apply: _onRequest,
\* _determineParent, _createSpanForRequest, _applyRequestHook, then the call of
\* the original handler with args.  An error that leaves _determineParent or
\* _applyRequestHook ends the call.
invokeOriginal(x, args) ==
  /\ pc = "idle"
  /\ patchedHandlerStart(x)
  /\ LET p == determineParent(x)
         hooked == ~p.threw /\ requestHook # "none"
         raised == hooked /\ safeExecuteRethrows(requestHook = "throws", TRUE)
         called == ~p.threw /\ ~raised
     IN /\ span' = [span EXCEPT !.created = ~p.threw]
        /\ reqHookCalls' = IF hooked THEN reqHookCalls + 1 ELSE reqHookCalls
        /\ pc' = IF called THEN "inHandler" ELSE "returned"
        /\ hostRet' = IF p.threw THEN Threw(TypeErr)
                      ELSE IF raised THEN Threw(HookErr)
                      ELSE hostRet
        /\ events' = events \o <<"coldStart", "parent">>
                        \o (IF p.threw THEN <<>> ELSE <<"span">>)
                        \o (IF hooked THEN <<"requestHook">> ELSE <<>>)
                        \o (IF called THEN <<"handler">> ELSE <<>>)
        /\ originalCalls' = IF called THEN Append(originalCalls, args) ELSE originalCalls
  /\ spanEnded' = FALSE
  /\ UNCHANGED <<config, respHookCalls, traceFlushCalls, metricFlushCalls, groups,
                 jobs, handlerPromise, cbCalls, cbThrew, handlerRet, signals,
                 hostPromise, hostCbCalls>>

\* patchedHandler: spanEnded = false, _wrapCallback, and the original handler is
\* called with (event, context, wrappedCallback)
Invoke(x) == invokeOriginal(x, HandlerArgs)

\* patchedStreamingHandler: the original handler is called with (event,
\* responseStream, context).  There is no callback and no spanEnded flag:
\* _handlePromiseResult gets no isSpanEnded, which reads as a flag that stays false.
StreamingInvoke(x) == invokeOriginal(x, StreamingArgs)

\* a completion signal reaches the instrumentation; the log keeps the first one
Signalled(st) ==
  IF \E k \in 1..Len(st.events) : st.events[k] = "signal"
    THEN st
    ELSE [st EXCEPT !.events = Append(@, "signal")]

\* wrappedCallback (_wrapCallback): the handler invokes the callback it was given,
\* during its synchronous part or later.  There is no check of spanEnded here; the
\* continuation handed to _endSpan sets it.  A throw of _endSpan reaches the
\* handler's code, which is taken to catch it (it may still throw FlushErr on).
wrappedCallback(err, res) ==
  /\ pc \in {"inHandler", "returned"}
  /\ Len(cbCalls) < MaxCbCalls
  /\ LET r == endSpan(applyResponseHook(Signalled(Cur), err, res), err,
                      Cont("callback", err, res))
     IN /\ Commit(r.st)
        /\ cbThrew' = IF r.threw THEN cbThrew + 1 ELSE cbThrew
  /\ cbCalls' = Append(cbCalls, <<err, res>>)
  /\ signals' = Append(signals, "callback")
  /\ UNCHANGED <<config, wrapper, originalCalls, pc, spanEnded, reqHookCalls, handlerPromise, handlerRet,
                 hostRet, hostPromise, hostCbCalls>>

\* _handlePromiseResult, the branch for a maybePromise without a then method
handleSyncResult(st, v) ==
  IF spanEnded
    THEN [st |-> st, threw |-> FALSE]
    ELSE endSpan(applyResponseHook(st, Null, v), Undefined,
                 Cont("noop", Undefined, Undefined))

\* The original handler returns a non-thenable value: onFinish sees no error and
\* _handlePromiseResult takes its synchronous branch.
HandlerReturnsValue(v) ==
  /\ pc = "inHandler"
  /\ pc' = "returned"
  /\ LET r == handleSyncResult(Cur, v)
     IN /\ Commit(r.st)
        /\ hostRet' = IF r.threw THEN Threw(FlushErr) ELSE Returned(v)
  /\ handlerRet' = Returned(v)
  /\ signals' = Append(signals, "return")
  /\ UNCHANGED <<config, wrapper, originalCalls, spanEnded, reqHookCalls, handlerPromise, cbCalls, cbThrew,
                 hostPromise, hostCbCalls>>

\* The original handler returns a promise: _handlePromiseResult registers its two
\* reactions with maybePromise.then and hands the derived promise to the host.
HandlerReturnsPromise ==
  /\ pc = "inHandler"
  /\ pc' = "returned"
  /\ handlerPromise' = PendingPromise
  /\ hostPromise' = PendingPromise
  /\ hostRet' = [kind |-> "promise", val |-> Undefined]
  /\ UNCHANGED <<config, wrapper, originalCalls, spanEnded, span, reqHookCalls, respHookCalls,
                 traceFlushCalls, metricFlushCalls, groups, jobs, cbCalls, cbThrew,
                 handlerRet, signals, hostCbCalls, events>>

\* safeExecuteInTheMiddle(execute, onFinish) when execute throws e: onFinish(e)
\* runs in the finally block (a throw of onFinish replaces e); then e is rethrown
\* if it is truthy, else the undefined result is returned to the caller.
onHandlerThrow(st, e) ==
  LET r1 == endSpan(applyResponseHook(st, e, Undefined), e,
                    Cont("noop", Undefined, Undefined))
  IN IF r1.threw THEN [st |-> r1.st, ret |-> Threw(FlushErr)]
     ELSE IF Truthy(e) THEN [st |-> r1.st, ret |-> Threw(e)]
     ELSE LET r2 == handleSyncResult(r1.st, Undefined)
          IN [st |-> r2.st,
              ret |-> IF r2.threw THEN Threw(FlushErr) ELSE Returned(Undefined)]

\* The original handler throws synchronously.
HandlerThrows(e) ==
  /\ pc = "inHandler"
  /\ pc' = "returned"
  /\ LET r == onHandlerThrow(Signalled(Cur), e)
     IN /\ Commit(r.st)
        /\ hostRet' = r.ret
  /\ handlerRet' = Threw(e)
  /\ signals' = Append(signals, "throw")
  /\ UNCHANGED <<config, wrapper, originalCalls, spanEnded, reqHookCalls, handlerPromise, cbCalls, cbThrew,
                 hostPromise, hostCbCalls>>

\* The promise the handler returned settles; its reaction becomes a microtask.
PromiseSettles(state, v) ==
  /\ pc = "returned"
  /\ handlerPromise.state = "pending"
  /\ handlerPromise' = [state |-> state, val |-> v]
  /\ jobs' = Append(jobs, [kind |-> "then", idx |-> 0])
  /\ signals' = Append(signals, IF state = "resolved" THEN "resolve" ELSE "reject")
  /\ UNCHANGED <<config, wrapper, originalCalls, pc, spanEnded, span, reqHookCalls, respHookCalls,
                 traceFlushCalls, metricFlushCalls, groups, cbCalls, cbThrew, handlerRet,
                 hostRet, hostPromise, hostCbCalls, events>>

\* _handlePromiseResult, the onFulfilled reaction.  The promise it returns is
\* created by an executor that calls _endSpan: a throw there rejects it.
thenFulfilled(st, value) ==
  IF spanEnded
    THEN [st |-> st, host |-> [state |-> "resolved", val |-> value]]
    ELSE LET r == endSpan(applyResponseHook(st, Null, value), Undefined,
                          Cont("resolve", Undefined, value))
         IN [st |-> r.st,
             host |-> IF r.threw THEN [state |-> "rejected", val |-> FlushErr]
                      ELSE PendingPromise]

\* _handlePromiseResult, the onRejected reaction
thenRejected(st, err) ==
  IF spanEnded
    THEN [st |-> st, host |-> [state |-> "rejected", val |-> err]]
    ELSE LET r == endSpan(applyResponseHook(st, err, Undefined), err,
                          Cont("reject", err, Undefined))
         IN [st |-> r.st,
             host |-> IF r.threw THEN [state |-> "rejected", val |-> FlushErr]
                      ELSE PendingPromise]

\* The microtask at the head of the queue is the handler promise's reaction.
RunThen ==
  /\ pc = "returned"
  /\ jobs # <<>>
  /\ Head(jobs).kind = "then"
  /\ LET st0 == Signalled([Cur EXCEPT !.jobs = Tail(jobs)])
         r == IF handlerPromise.state = "resolved"
                THEN thenFulfilled(st0, handlerPromise.val)
                ELSE thenRejected(st0, handlerPromise.val)
     IN /\ Commit(r.st)
        /\ hostPromise' = r.host
  /\ UNCHANGED <<config, wrapper, originalCalls, pc, spanEnded, reqHookCalls, handlerPromise, cbCalls,
                 cbThrew, handlerRet, signals, hostRet, hostCbCalls>>

\* The microtask at the head of the queue is the reaction of Promise.all(flushers):
\* the callback that was given to _endSpan.
RunContinuation ==
  /\ pc = "returned"
  /\ jobs # <<>>
  /\ Head(jobs).kind = "cont"
  /\ LET c == groups[Head(jobs).idx].cont
     IN /\ spanEnded' = IF c.kind = "callback" THEN TRUE ELSE spanEnded
        /\ hostCbCalls' = IF c.kind = "callback"
                            THEN Append(hostCbCalls, <<c.err, c.res>>)
                            ELSE hostCbCalls
        /\ hostPromise' = CASE c.kind = "resolve" -> [state |-> "resolved", val |-> c.res]
                            [] c.kind = "reject" -> [state |-> "rejected", val |-> c.err]
                            [] OTHER -> hostPromise
  /\ jobs' = Tail(jobs)
  /\ UNCHANGED <<config, wrapper, originalCalls, pc, span, reqHookCalls, respHookCalls, traceFlushCalls,
                 metricFlushCalls, groups, handlerPromise, cbCalls, cbThrew, handlerRet,
                 signals, hostRet, events>>

\* A force-flush promise settles.  Promise.all(flushers) settles with it when it
\* was the last pending one or when it rejected, and its reaction is queued.
FlushSettles(i, which, outcome) ==
  /\ pc = "returned"
  /\ i \in 1..Len(groups)
  /\ groups[i][which] = "pending"
  /\ LET g == [groups[i] EXCEPT ![which] = outcome]
         all == IF g.all = "pending" THEN PromiseAll(g.trace, g.metric) ELSE g.all
     IN /\ groups' = [groups EXCEPT ![i] = [g EXCEPT !.all = all]]
        /\ jobs' = IF g.all = "pending" /\ all # "pending"
                     THEN Append(jobs, [kind |-> "cont", idx |-> i])
                     ELSE jobs
  /\ UNCHANGED <<config, wrapper, originalCalls, pc, spanEnded, span, reqHookCalls, respHookCalls,
                 traceFlushCalls, metricFlushCalls, handlerPromise, cbCalls, cbThrew,
                 handlerRet, signals, hostRet, hostPromise, hostCbCalls, events>>

\* the (err, res) pairs the handler passes to the callback
CbArgs == {<<Null, ResR>>, <<failure, Undefined>>}
\* what the handler throws or rejects with: its failure value, or the error a
\* throwing wrappedCallback raised in it
Failures == {failure} \cup (IF cbThrew > 0 THEN {FlushErr} ELSE {})

Next ==
  \/ Invoke(Extracted(ROOT_CONTEXT))
  \/ \E a \in CbArgs : wrappedCallback(a[1], a[2])
  \/ \E v \in ReturnVals : HandlerReturnsValue(v)
  \/ HandlerReturnsPromise
  \/ \E e \in Failures : HandlerThrows(e)
  \/ PromiseSettles("resolved", ResR2)
  \/ \E e \in Failures : PromiseSettles("rejected", e)
  \/ RunThen
  \/ RunContinuation
  \/ \E i \in 1..Len(groups), which \in {"trace", "metric"}, outcome \in {"fulfilled", "rejected"} :
       FlushSettles(i, which, outcome)

Spec == Init /\ [][Next]_vars

(***************************************************************************)
(* SpecStreaming: one invocation of patchedStreamingHandler.  It shares    *)
(* _handlePromiseResult and _endSpan with patchedHandler; the handler has  *)
(* no callback to invoke.                                                  *)
(***************************************************************************)
NextStreaming ==
  \/ StreamingInvoke(Extracted(ROOT_CONTEXT))
  \/ \E v \in ReturnVals : HandlerReturnsValue(v)
  \/ HandlerReturnsPromise
  \/ HandlerThrows(failure)
  \/ PromiseSettles("resolved", ResR2)
  \/ PromiseSettles("rejected", failure)
  \/ RunThen
  \/ RunContinuation
  \/ \E i \in 1..Len(groups), which \in {"trace", "metric"}, outcome \in {"fulfilled", "rejected"} :
       FlushSettles(i, which, outcome)

SpecStreaming == Init /\ [][NextStreaming]_vars

(***************************************************************************)
(* SpecWrapper: one wrapper, several invocations that overlap.  Each call  *)
(* of the patched handler runs its synchronous start; the invocation then  *)
(* stays open (its handler is suspended) until it completes.               *)
(***************************************************************************)
InitWrapper ==
  /\ traceFlusher = "none"
  /\ metricFlusher = "none"
  /\ requestHook = "none"
  /\ responseHook = "none"
  /\ failure = ErrBoom
  /\ initializationType \in InitializationTypes
  /\ passedTimeSinceHandlerLoad = lambdaMaxInitInMilliseconds - MaxEarly
  /\ InitWrapperState
  /\ InitPatchingState
  /\ InitRequestState
  /\ events = <<>>
  /\ originalCalls = <<>>
  /\ pc = "idle"
  /\ spanEnded = FALSE
  /\ span = NoSpan
  /\ reqHookCalls = 0
  /\ respHookCalls = <<>>
  /\ traceFlushCalls = 0
  /\ metricFlushCalls = 0
  /\ groups = <<>>
  /\ jobs = <<>>
  /\ handlerPromise = NoPromise
  /\ cbCalls = <<>>
  /\ cbThrew = 0
  /\ handlerRet = [kind |-> "none", val |-> Undefined]
  /\ signals = <<>>
  /\ hostRet = [kind |-> "none", val |-> Undefined]
  /\ hostPromise = NoPromise
  /\ hostCbCalls = <<>>

\* time passes
Tick ==
  /\ passedTimeSinceHandlerLoad < lambdaMaxInitInMilliseconds + MaxLate
  /\ passedTimeSinceHandlerLoad' = passedTimeSinceHandlerLoad + 1
  /\ UNCHANGED <<setup, request, initializationType, patching, wrapper, invocation>>

\* the host calls the patched handler: the synchronous start of patchedHandler
PatchedHandlerCalled(x) ==
  /\ Len(invocations) < MaxInvocations
  /\ patchedHandlerStart(x)
  /\ UNCHANGED <<config, invocation>>

\* an open invocation completes
InvocationCompletes(i) ==
  /\ i \in 1..Len(invocations)
  /\ invocations[i].open
  /\ invocations' = [invocations EXCEPT ![i].open = FALSE]
  /\ UNCHANGED <<config, requestHandledBefore, requestIsColdStart, invocation>>

NextWrapper ==
  \/ Tick
  \/ \E x \in ExtractorOutcomes : PatchedHandlerCalled(x)
  \/ \E i \in 1..Len(invocations) : InvocationCompletes(i)

SpecWrapper == InitWrapper /\ [][NextWrapper]_vars

TypeOK ==
  /\ pc \in {"idle", "inHandler", "returned"}
  /\ spanEnded \in BOOLEAN
  /\ span.ends \in Nat
  /\ Len(cbCalls) <= MaxCbCalls
  /\ hostRet.kind \in {"none", "value", "promise", "throw"}
  /\ hostPromise.state \in {"none", "pending", "resolved", "rejected"}
  /\ \A j \in 1..Len(jobs) : jobs[j].kind \in {"then", "cont"}

(***************************************************************************)
(* Properties                                                              *)
(***************************************************************************)
FlushersDoNotThrow == traceFlusher # "throws" /\ metricFlusher # "throws"
HookConfigured == responseHook # "none"

\* one span-ending sequence at most: response hook, span.end(), each flusher
AtMostOneEndingSequence ==
  /\ span.ends <= 1
  /\ Len(respHookCalls) <= 1
  /\ traceFlushCalls <= 1
  /\ metricFlushCalls <= 1

\* the host holds an outcome of the invocation
HostHasOutcome ==
  \/ hostCbCalls # <<>>
  \/ hostPromise.state \in {"resolved", "rejected"}
  \/ hostRet.kind = "value"

\* C1: for every invocation the span-ending logic (response hook, span.end(),
\* force flush) runs exactly once, whichever of the completion shapes fire: never
\* twice, and once by the time the host holds the outcome.  Stated for handlers
\* that do not throw and flushers that do not throw.
C1_SpanEndingExactlyOnce ==
  (FlushersDoNotThrow /\ handlerRet.kind # "throw") =>
    /\ AtMostOneEndingSequence
    /\ HostHasOutcome => span.ends = 1

\* Scenario C: the handler invoked the callback with (null, R) and the promise
\* it returned resolved afterwards with R2.
ScenarioC ==
  /\ signals = <<"callback", "resolve">>
  /\ cbCalls = <<<<Null, ResR>>>>
  /\ handlerPromise.val = ResR2
  /\ FlushersDoNotThrow

\* C2: in Scenario C exactly one span-ending sequence runs, however the promise's
\* resolution interleaves with the settlement of the callback path's flush
\* promises: the second signal causes no further response-hook call, span.end()
\* call or flush call.
C2_ScenarioCEndsOnce == ScenarioC => AtMostOneEndingSequence

\* the returned promise settled and its reaction ran its completion sequence, and
\* the handler invoked the callback afterwards
PromiseThenCallback ==
  /\ signals \in {<<"resolve", "callback">>, <<"reject", "callback">>}
  /\ groups # <<>>
  /\ groups[1].cont.kind \in {"resolve", "reject"}
  /\ FlushersDoNotThrow

\* C3: when the returned promise settles first and the handler invokes the wrapped
\* callback afterwards, the callback signal is a no-op for the instrumentation: no
\* response-hook call, no span.end() call and no force flush beyond the first
\* sequence.
C3_LateCallbackIsNoOp == PromiseThenCallback => AtMostOneEndingSequence

\* a completion signal (callback, fulfilment or rejection) has started its sequence
CompletionStarted ==
  \E i \in 1..Len(groups) : groups[i].cont.kind \in {"callback", "resolve", "reject"}

\* C4: spanEnded is set in the same synchronous step in which the first completion
\* signal is received, so from that step on the flag reads true.
C4_FlagSetWithFirstSignal ==
  (FlushersDoNotThrow /\ CompletionStarted) => spanEnded

\* C5: a handler that returns a non-thenable value and invokes the callback later
\* is completed by the callback alone: no response hook and no span.end() before
\* the callback is invoked, and exactly one of each once it has been.
C5_CallbackAloneDrivesCompletion ==
  FlushersDoNotThrow =>
    /\ signals = <<"return">> => (span.ends = 0 /\ respHookCalls = <<>>)
    /\ signals = <<"return", "callback">> =>
         (span.ends = 1 /\ (HookConfigured => Len(respHookCalls) = 1))

\* C6: the host receives exactly the outcome of the unwrapped handler: what
\* patchedHandler returns or throws synchronously is what the handler returned or
\* threw, the promise handed to the host settles as the handler's promise did, and
\* the host's callback receives only (err, res) pairs the handler passed.  Stated
\* for handlers whose failure value is truthy.
C6_OutcomeIsTheHandlersOwn ==
  Truthy(failure) =>
    /\ hostRet.kind \in {"value", "throw"} => hostRet = handlerRet
    /\ hostPromise.state \in {"resolved", "rejected"} => hostPromise = handlerPromise
    /\ Len(hostCbCalls) <= Len(cbCalls)
    /\ \A k \in 1..Len(hostCbCalls) : \E j \in 1..Len(cbCalls) : hostCbCalls[k] = cbCalls[j]

\* the step hands control to the host: its callback is invoked or its promise settles
DeliveryStep ==
  \/ Len(hostCbCalls') > Len(hostCbCalls)
  \/ hostPromise.state = "pending" /\ hostPromise'.state \in {"resolved", "rejected"}

\* C7: on the callback path and on the promise path the host gets control back
\* only after span.end() was called and the force-flush calls of the completing
\* _endSpan have all settled.
C7_DeliveryAfterEndAndFlush ==
  [][(FlushersDoNotThrow /\ DeliveryStep) =>
       /\ span.ends >= 1
       /\ Head(jobs).kind = "cont" =>
            LET g == groups[Head(jobs).idx]
            IN g.trace # "pending" /\ g.metric # "pending"]_vars

\* C8: with a trace and a metric flusher configured, every _endSpan calls both,
\* and Promise.all over the two has settled (the continuation is released) only
\* when neither flush promise is pending any more.
C8_ContinuationAfterBothFlushes ==
  (traceFlusher = "async" /\ metricFlusher = "async") =>
    /\ traceFlushCalls = Len(groups) /\ metricFlushCalls = Len(groups)
    /\ \A i \in 1..Len(groups) :
         groups[i].all # "pending" =>
           (groups[i].trace # "pending" /\ groups[i].metric # "pending")

\* every configured flusher throws on every call
FlushAlwaysThrows ==
  /\ {traceFlusher, metricFlusher} \subseteq {"none", "throws"}
  /\ "throws" \in {traceFlusher, metricFlusher}

\* nothing of the invocation is left to run
Quiescent == pc = "returned" /\ jobs = <<>>

\* C9: if the force-flush capability throws on every call the invocation still
\* completes with the handler's result: the promise handed to the host settles as
\* the handler's promise did, and the host's callback has received the handler's
\* arguments once the instrumentation has nothing left to run.
C9_ThrowingFlushKeepsOutcome ==
  (FlushAlwaysThrows /\ Truthy(failure)) =>
    /\ hostPromise.state \in {"resolved", "rejected"} => hostPromise = handlerPromise
    /\ Quiescent => hostCbCalls = cbCalls

\* C10: if the handler throws an Error synchronously, the span gets one exception
\* record and one ERROR status carrying the error's message, the response hook
\* runs once with the error and no result, span.end() is called once and the same
\* error is raised to the host.  Stated for flushers that do not throw.
C10_SyncThrowRecordedAndRethrown ==
  (signals = <<"throw">> /\ handlerRet = Threw(failure) /\ failure.t = "Error"
     /\ FlushersDoNotThrow) =>
    /\ span.exceptions = <<failure>>
    /\ span.statuses = <<failure.m>>
    /\ HookConfigured => respHookCalls = <<<<failure, Undefined>>>>
    /\ span.ends = 1
    /\ hostRet = Threw(failure)

\* no force-flush promise of the invocation is pending
NoFlushPending ==
  \A i \in 1..Len(groups) :
    groups[i].trace # "pending" /\ groups[i].metric # "pending"

\* C11: when the handler throws synchronously, the host gets the error only after
\* span.end() was called and the force flush issued for the invocation has
\* completed.  Stated for flushers that do not throw.
C11_SyncThrowRaisedAfterFlush ==
  (signals = <<"throw">> /\ hostRet = Threw(failure) /\ FlushersDoNotThrow) =>
    (span.ends >= 1 /\ NoFlushPending)

\* the handler's failure reached the instrumentation through a promise rejection
\* whose reaction has run, or through the callback's error argument, and through
\* nothing else
FailureDelivered ==
  \/ signals = <<"reject">> /\ handlerPromise.val = failure /\ groups # <<>>
  \/ signals = <<"callback">> /\ cbCalls = <<<<failure, Undefined>>>>

\* C12: a handler failure delivered through a promise rejection or through the
\* callback's error argument is recorded on the span (one exception record and
\* the ERROR status) and reaches the host unchanged, for every truthy failure
\* value: an Error with any message, the empty one included, or a string.
\* Stated for flushers that do not throw.
C12_FailureRecordedAndResurfaced ==
  (FailureDelivered /\ Truthy(failure) /\ FlushersDoNotThrow) =>
    /\ span.exceptions = <<failure>>
    /\ Len(span.statuses) = 1
    /\ span.ends = 1
    /\ hostPromise.state = "rejected" => hostPromise.val = failure
    /\ hostCbCalls # <<>> => hostCbCalls = <<<<failure, Undefined>>>>

\* the handler has fired neither completion signal: it has not invoked the
\* callback, no promise it returned has settled, and it has not thrown
NoCompletionSignal ==
  /\ cbCalls = <<>>
  /\ handlerPromise.state \notin {"resolved", "rejected"}
  /\ handlerRet.kind # "throw"

\* C13: as long as the handler has fired neither completion signal the span stays
\* open (span.end() has not been called) and the host holds no outcome of the
\* invocation.
C13_NoSignalNoEnd ==
  NoCompletionSignal => (span.ends = 0 /\ ~HostHasOutcome)

\* the classification of the i-th call of the patched handler as the cold-start
\* rule gives it: true for the first call, unless the sandbox was initialized with
\* provisioned concurrency or more than 10,000 ms had passed since the handler
\* was loaded
ExpectedColdStart(i) ==
  /\ i = 1
  /\ initializationType # "provisioned-concurrency"
  /\ invocations[i].passed <= 10000

\* C14: the first invocation of a wrapper is classified cold start unless
\* AWS_LAMBDA_INITIALIZATION_TYPE is provisioned-concurrency or more than 10,000
\* ms have passed since lambdaStartTime (exactly 10,000 ms is still cold); every
\* later invocation is classified false, and the closure variable reads false
\* from then on.
C14_ColdStartClassification ==
  /\ \A i \in 1..Len(invocations) : invocations[i].classified = ExpectedColdStart(i)
  /\ Len(invocations) >= 2 => ~requestIsColdStart
  /\ invocations # <<>> => requestHandledBefore

\* first call exactly 10,000 ms after load, classified cold; a second call, not
C14_Witness ==
  /\ Len(invocations) >= 2
  /\ invocations[1].passed = 10000
  /\ invocations[1].classified
  /\ ~invocations[2].classified

\* the invocations whose span carries faas.coldstart = true
ColdStartSpans ==
  {i \in 1..Len(invocations) :
     invocations[i].span.created /\ invocations[i].span.coldstart}

\* C15: however many invocations of one wrapper overlap, at most one span carries
\* faas.coldstart = true, and the value on each span is the one that invocation's
\* own _onRequest computed.
C15_OneColdStartSpan ==
  /\ Cardinality(ColdStartSpans) <= 1
  /\ \A i \in 1..Len(invocations) :
       invocations[i].span.created =>
         invocations[i].span.coldstart = invocations[i].classified

\* three invocations open at once, the first one's span stamped cold
C15_Witness ==
  /\ Len(invocations) = 3
  /\ \A i \in 1..3 : invocations[i].open
  /\ ColdStartSpans = {1}

\* the reaction of Promise.all of the k-th _endSpan call has run
ContinuationRan(k) ==
  /\ groups[k].all \in {"fulfilled", "rejected"}
  /\ \A j \in 1..Len(jobs) : ~(jobs[j].kind = "cont" /\ jobs[j].idx = k)

\* the host has what the continuation of the k-th _endSpan call carries
Delivered(k) ==
  LET c == groups[k].cont
  IN CASE c.kind = "callback" ->
            \E j \in 1..Len(hostCbCalls) : hostCbCalls[j] = <<c.err, c.res>>
       [] c.kind = "resolve" -> hostPromise = [state |-> "resolved", val |-> c.res]
       [] c.kind = "reject" -> hostPromise = [state |-> "rejected", val |-> c.err]
       [] OTHER -> TRUE

\* the k-th _endSpan call and its continuation got the error and the result that
\* the k-th response hook call got
SameDownstream(k) ==
  LET c == groups[k].cont
      h == respHookCalls[k]
  IN /\ c.kind \in {"callback", "reject"} => (c.err = h[1] /\ c.res = h[2])
     /\ c.kind = "resolve" => c.res = h[2]

\* the response hook calls that were given an error
HookCallsWithError == {k \in 1..Len(respHookCalls) : Truthy(respHookCalls[k][1])}

\* C16: a requestHook that throws does not abort the invocation: the handler is
\* entered and the hook's error does not reach the host.  A responseHook that
\* throws changes nothing downstream: every call of it is followed by span.end()
\* and the flusher calls, the span records exactly the errors the hook was given,
\* the continuation carries the same error and result, and the outcome is
\* delivered once the flush promises have settled.
C16_ThrowingHooksChangeNothing ==
  /\ requestHook = "throws" =>
       /\ pc # "idle" =>
            (reqHookCalls = 1 /\ \E k \in 1..Len(events) : events[k] = "handler")
       /\ hostRet # Threw(HookErr)
  /\ responseHook = "throws" =>
       /\ Len(respHookCalls) = span.ends
       /\ Len(respHookCalls) = Len(groups)
       /\ traceFlusher # "none" => traceFlushCalls = span.ends
       /\ (metricFlusher # "none" /\ traceFlusher # "throws") =>
            metricFlushCalls = span.ends
       /\ Len(span.exceptions) = Cardinality(HookCallsWithError)
       /\ \A j \in 1..Len(span.exceptions) :
            \E k \in HookCallsWithError : respHookCalls[k][1] = span.exceptions[j]
       /\ \A k \in 1..Len(groups) :
            /\ SameDownstream(k)
            /\ ContinuationRan(k) => Delivered(k)

\* both hooks throw; the flush promise settled and the host's callback was invoked
C16_Witness ==
  /\ requestHook = "throws"
  /\ responseHook = "throws"
  /\ traceFlusher = "async"
  /\ span.ends = 1
  /\ respHookCalls = <<<<failure, Undefined>>>>
  /\ hostCbCalls = <<<<failure, Undefined>>>>

\* C17: when the eventContextExtractor throws, nothing is raised to the caller
\* of the patched handler, the parent is the root context, the span is created
\* and the handler runs (the invocation is open).
C17_ExtractorFailureContained ==
  \A i \in 1..Len(invocations) :
    invocations[i].extracted.threw =>
      /\ ~invocations[i].threw
      /\ invocations[i].parent = ROOT_CONTEXT
      /\ invocations[i].span.created

\* the context carries a valid remote span reference
ValidRemote(ctx) == ctx.hasSpan /\ ctx.valid /\ ctx.remote

\* C18: _determineParent returns the extracted context exactly when it carries a
\* valid remote span reference, and the span then continues the carrier's trace;
\* in every other case (no span, an invalid span context, a non-remote span of
\* the ambient context) it returns the root context.
C18_ParentIffValidRemote ==
  \A i \in 1..Len(invocations) :
    ~invocations[i].extracted.threw =>
      LET ctx == invocations[i].extracted.ctx
      IN IF ValidRemote(ctx)
           THEN /\ invocations[i].parent = ctx
                /\ invocations[i].span.traceId = ctx.traceId
           ELSE invocations[i].parent = ROOT_CONTEXT

\* the place of a step in the order of the data flow
Rank(e) == CHOOSE k \in 1..Len(EventOrder) : EventOrder[k] = e

\* C19: within one invocation the steps occur in the order cold-start
\* classification, parent resolution, span creation, request hook, handler
\* execution, first completion signal, response hook, exception/status
\* recording, span.end(), force-flush calls: no step is taken after a step that
\* comes later in this order.  Stated for handlers that do not throw and flushers
\* that do not throw.
C19_EventsInOrder ==
  (handlerRet.kind # "throw" /\ FlushersDoNotThrow) =>
    \A i, j \in 1..Len(events) :
      i < j => Rank(events[i]) <= Rank(events[j])

\* C20: one span is created for the invocation, and on it the exception record
\* and the status are each set at most once, whatever combination of callback
\* error, promise rejection and synchronous throw occurs.  Stated for failure
\* values with a message and flushers that do not throw.
C20_OneSpanOneRecord ==
  (failure.m # "" /\ FlushersDoNotThrow) =>
    /\ pc # "idle" => (Len(invocations) = 1 /\ span.created)
    /\ Len(span.exceptions) <= 1
    /\ Len(span.statuses) <= 1

\* the status a span carries: _endSpan calls setStatus with ERROR only; a span it
\* never calls setStatus on keeps the status it was created with, UNSET
StatusCode(sp) == IF sp.statuses = <<>> THEN "UNSET" ELSE "ERROR"

\* Scenario A: the handler returned a promise, the promise resolved, its reaction
\* has run, the callback was not used and no flusher throws
ScenarioA ==
  /\ signals = <<"resolve">>
  /\ groups # <<>>
  /\ FlushersDoNotThrow

\* C21 as stated: in Scenario A the span's status is OK.
C21_ResolvedSpanStatusOK == ScenarioA => StatusCode(span) = "OK"

\* C21 as the code has it: in Scenario A one span is created and ended once, no
\* exception is recorded, setStatus is never called (the status stays UNSET), the
\* response hook observes (null, R) once, and the host's promise resolves with R.
C21_ResolvedSpanUnset ==
  ScenarioA =>
    /\ Len(invocations) = 1 /\ span.created
    /\ span.ends = 1
    /\ span.exceptions = <<>>
    /\ StatusCode(span) = "UNSET"
    /\ HookConfigured => respHookCalls = <<<<Null, handlerPromise.val>>>>
    /\ hostPromise.state = "resolved" => hostPromise.val = handlerPromise.val

\* Scenario A with a response hook, run to the end: the host's promise resolved
C21_Witness ==
  /\ ScenarioA
  /\ HookConfigured
  /\ hostPromise = [state |-> "resolved", val |-> ResR2]

\* the streaming handler has completed in one of its three ways: the promise it
\* returned settled and the reaction ran, it returned a value, or it threw
StreamingCompleted ==
  \/ signals \in {<<"resolve">>, <<"reject">>} /\ groups # <<>>
  \/ signals = <<"return">>
  \/ signals = <<"throw">>

\* C22: the streaming handler is called with (event, responseStream, context), no
\* callback of the host is involved, nothing ends the span before the handler
\* completes, and span.end() is called exactly once when the returned promise
\* settles, when the handler returns synchronously and when it throws
\* synchronously.
C22_StreamingEndsOnce ==
  /\ \A k \in 1..Len(originalCalls) : originalCalls[k] = StreamingArgs
  /\ hostCbCalls = <<>>
  /\ signals = <<>> => span.ends = 0
  /\ StreamingCompleted => span.ends = 1

(***************************************************************************)
(* SpecCustom: one invocation of the patchedHandler of                     *)
(* CustomAwsLambdaInstrumentation.  Its _onRequest, _determineParent,      *)
(* _createSpanForRequest, hooks, _wrapCallback and _endSpan are the code   *)
(* of AwsLambdaInstrumentation; its patchedHandler has no spanEnded and    *)
(* its _handlePromiseResult takes no isSpanEnded.  The variable spanEnded  *)
(* keeps the value the flag of AwsLambdaInstrumentation has after the same *)
(* steps; no step of this wrapper reads it.                                *)
(***************************************************************************)
\* _handlePromiseResult of the custom wrapper, the branch for a maybePromise
\* without a then method
customHandleSyncResult(st, v) ==
  endSpan(applyResponseHook(st, Null, v), Undefined, Cont("noop", Undefined, Undefined))

\* The original handler returns a non-thenable value to the custom wrapper.
CustomHandlerReturnsValue(v) ==
  /\ pc = "inHandler"
  /\ pc' = "returned"
  /\ LET r == customHandleSyncResult(Cur, v)
     IN /\ Commit(r.st)
        /\ hostRet' = IF r.threw THEN Threw(FlushErr) ELSE Returned(v)
  /\ handlerRet' = Returned(v)
  /\ signals' = Append(signals, "return")
  /\ UNCHANGED <<config, wrapper, originalCalls, spanEnded, reqHookCalls, handlerPromise, cbCalls, cbThrew,
                 hostPromise, hostCbCalls>>

\* safeExecuteInTheMiddle around original.apply in the custom wrapper, when the
\* handler throws e
customOnHandlerThrow(st, e) ==
  LET r1 == endSpan(applyResponseHook(st, e, Undefined), e,
                    Cont("noop", Undefined, Undefined))
  IN IF r1.threw THEN [st |-> r1.st, ret |-> Threw(FlushErr)]
     ELSE IF Truthy(e) THEN [st |-> r1.st, ret |-> Threw(e)]
     ELSE LET r2 == customHandleSyncResult(r1.st, Undefined)
          IN [st |-> r2.st,
              ret |-> IF r2.threw THEN Threw(FlushErr) ELSE Returned(Undefined)]

\* The original handler throws synchronously into the custom wrapper.
CustomHandlerThrows(e) ==
  /\ pc = "inHandler"
  /\ pc' = "returned"
  /\ LET r == customOnHandlerThrow(Signalled(Cur), e)
     IN /\ Commit(r.st)
        /\ hostRet' = r.ret
  /\ handlerRet' = Threw(e)
  /\ signals' = Append(signals, "throw")
  /\ UNCHANGED <<config, wrapper, originalCalls, spanEnded, reqHookCalls, handlerPromise, cbCalls, cbThrew,
                 hostPromise, hostCbCalls>>

\* _handlePromiseResult of the custom wrapper, the onFulfilled reaction
customThenFulfilled(st, value) ==
  LET r == endSpan(applyResponseHook(st, Null, value), Undefined,
                   Cont("resolve", Undefined, value))
  IN [st |-> r.st,
      host |-> IF r.threw THEN [state |-> "rejected", val |-> FlushErr]
               ELSE PendingPromise]

\* _handlePromiseResult of the custom wrapper, the onRejected reaction
customThenRejected(st, err) ==
  LET r == endSpan(applyResponseHook(st, err, Undefined), err,
                   Cont("reject", err, Undefined))
  IN [st |-> r.st,
      host |-> IF r.threw THEN [state |-> "rejected", val |-> FlushErr]
               ELSE PendingPromise]

\* The microtask at the head of the queue is the reaction the custom wrapper
\* registered on the handler's promise.
CustomRunThen ==
  /\ pc = "returned"
  /\ jobs # <<>>
  /\ Head(jobs).kind = "then"
  /\ LET st0 == Signalled([Cur EXCEPT !.jobs = Tail(jobs)])
         r == IF handlerPromise.state = "resolved"
                THEN customThenFulfilled(st0, handlerPromise.val)
                ELSE customThenRejected(st0, handlerPromise.val)
     IN /\ Commit(r.st)
        /\ hostPromise' = r.host
  /\ UNCHANGED <<config, wrapper, originalCalls, pc, spanEnded, reqHookCalls, handlerPromise, cbCalls,
                 cbThrew, handlerRet, signals, hostRet, hostCbCalls>>

NextCustom ==
  \/ Invoke(Extracted(ROOT_CONTEXT))
  \/ \E a \in CbArgs : wrappedCallback(a[1], a[2])
  \/ \E v \in ReturnVals : CustomHandlerReturnsValue(v)
  \/ HandlerReturnsPromise
  \/ \E e \in Failures : CustomHandlerThrows(e)
  \/ PromiseSettles("resolved", ResR2)
  \/ \E e \in Failures : PromiseSettles("rejected", e)
  \/ CustomRunThen
  \/ RunContinuation
  \/ \E i \in 1..Len(groups), which \in {"trace", "metric"}, outcome \in {"fulfilled", "rejected"} :
       FlushSettles(i, which, outcome)

SpecCustom == Init /\ [][NextCustom]_vars

\* C23: every step of the custom wrapper is a step of the standard wrapper from
\* the same state: the two produce the same request-hook, response-hook,
\* span.end() and flush events and deliver the same outcome to the host, for
\* every handler behaviour.
C23_CustomStepsAreStandardSteps == [][Next]_vars

(***************************************************************************)
(* SpecAttributes: _createSpanForRequest computes cloud.account.id and     *)
(* url.full for one context and one event, drawn from the identifiers and  *)
(* the events above.                                                       *)
(***************************************************************************)
InitAttributes ==
  /\ traceFlusher = "none"
  /\ metricFlusher = "none"
  /\ requestHook = "none"
  /\ responseHook = "none"
  /\ failure = ErrBoom
  /\ initializationType = "on-demand"
  /\ passedTimeSinceHandlerLoad = 0
  /\ InitWrapperState
  /\ InitPatchingState
  /\ \/ functionArn \in Arns /\ lambdaEvent = SampleEvent
     \/ functionArn = SampleArn /\ lambdaEvent \in LambdaEvents
  /\ attributes = NoAttributes
  /\ events = <<>>
  /\ originalCalls = <<>>
  /\ pc = "idle"
  /\ spanEnded = FALSE
  /\ span = NoSpan
  /\ reqHookCalls = 0
  /\ respHookCalls = <<>>
  /\ traceFlushCalls = 0
  /\ metricFlushCalls = 0
  /\ groups = <<>>
  /\ jobs = <<>>
  /\ handlerPromise = NoPromise
  /\ cbCalls = <<>>
  /\ cbThrew = 0
  /\ handlerRet = [kind |-> "none", val |-> Undefined]
  /\ signals = <<>>
  /\ hostRet = [kind |-> "none", val |-> Undefined]
  /\ hostPromise = NoPromise
  /\ hostCbCalls = <<>>

\* the attribute object of _createSpanForRequest
CreateSpanAttributes ==
  /\ ~attributes.set
  /\ attributes' = [set |-> TRUE,
                    accountId |-> extractAccountId(functionArn),
                    urlFull |-> extractOtherEventFields(lambdaEvent)]
  /\ UNCHANGED <<setup, functionArn, lambdaEvent, initializationType, passedTimeSinceHandlerLoad, patching,
                 wrapper, invocation>>

NextAttributes == CreateSpanAttributes

SpecAttributes == InitAttributes /\ [][NextAttributes]_vars

\* ARN shape: arn:partition:service:region:account-id:resource, that is, at least
\* six colon-delimited segments of which the first is "arn"
hasArnShape(arn) ==
  LET parts == split(arn)
  IN Len(parts) >= 6 /\ parts[1] = <<"arn">>

\* C24: cloud.account.id is the fifth colon-delimited segment of the function
\* identifier when the identifier has ARN shape, and absent for every identifier
\* that does not.
C24_AccountIdIffArnShape ==
  (/\ attributes.set
   /\ functionArn \in Arns
   /\ \A k \in {1, 5} \cap DOMAIN split(functionArn) : split(functionArn)[k] = <<"1">>) =>
    IF hasArnShape(functionArn)
      THEN attributes.accountId = Str(split(functionArn)[5])
      ELSE attributes.accountId = Absent

\* the host, the scheme and the path the event carries, as the claim reads them:
\* a header in either spelling, and the event's path or else its rawPath
carriedHost(event) == nullish(event.host, event.Host)
carriedProto(event) == nullish(event.proto, event.Proto)
carriedPort(event) == nullish(event.port, event.Port)
carriedPath(event) == IF truthy(event.path) THEN event.path ELSE event.rawPath
\* the pairs of the query, percent-encoded and joined with "&"
RECURSIVE joinedQuery(_)
joinedQuery(pairs) ==
  IF pairs = <<>> THEN <<>>
  ELSE encodeURIComponent(Head(pairs)[1]) \o <<"=">> \o encodeURIComponent(Head(pairs)[2])
         \o (IF Tail(pairs) = <<>> THEN <<>> ELSE <<"&">> \o joinedQuery(Tail(pairs)))
\* scheme://host[:port]path[?query]
expectedUrl(event) ==
  IF event.hasHeaders /\ truthy(carriedHost(event)) /\ truthy(carriedProto(event))
       /\ truthy(carriedPath(event))
    THEN Str(carriedProto(event).s \o <<":", "/", "/">> \o carriedHost(event).s
               \o (IF truthy(carriedPort(event)) THEN <<":">> \o carriedPort(event).s ELSE <<>>)
               \o carriedPath(event).s
               \o (IF event.query.pairs = <<>> THEN <<>>
                   ELSE <<"?">> \o joinedQuery(event.query.pairs)))
    ELSE Absent

\* C25: url.full is present exactly when the event carries a host header, a
\* forwarded-protocol header and a path, and then equals
\* scheme://host[:port]path[?query] with the event's path (or rawPath) and the
\* percent-encoded pairs joined with "&", for every event.
C25_UrlFullForEveryEvent ==
  (attributes.set /\ lambdaEvent \in LambdaEvents) =>
    attributes.urlFull = expectedUrl(lambdaEvent)

\* C26: when the handler returns a non-thenable value synchronously, the host
\* gets that value back only after the force flush issued for the invocation has
\* settled.  Stated for flushers that do not throw.
C26_SyncReturnAfterFlush ==
  (signals = <<"return">> /\ handlerRet.kind = "value" /\ hostRet = handlerRet
     /\ FlushersDoNotThrow) =>
    (groups # <<>> /\ NoFlushPending)

\* the flush of the k-th _endSpan call is over: no flush promise is pending, or
\* one of them has rejected
FlushOver(k) ==
  \/ "rejected" \in {groups[k].trace, groups[k].metric}
  \/ groups[k].trace # "pending" /\ groups[k].metric # "pending"

\* the reaction of the k-th Promise.all is in the microtask queue
ContinuationQueued(k) ==
  \E j \in 1..Len(jobs) : jobs[j].kind = "cont" /\ jobs[j].idx = k

\* C27: a force-flush promise that rejects and a provider without forceFlush
\* never fail the invocation: no flush error reaches the handler or the host, and
\* once the flush of an _endSpan call is over (at once when no flusher exists)
\* its continuation is queued or has run and delivered the handler's outcome to
\* the host.  Stated for flushers that do not throw synchronously.
C27_FlushFailureNeverFailsInvocation ==
  FlushersDoNotThrow =>
    /\ cbThrew = 0
    /\ hostRet.val # FlushErr
    /\ hostPromise.val # FlushErr
    /\ \A k \in 1..Len(groups) :
         FlushOver(k) =>
           \/ ContinuationQueued(k)
           \/ ContinuationRan(k) /\ Delivered(k)

\* a trace flush rejected, there is no metric flusher, and the host's promise
\* resolved with the handler's value
C27_Witness ==
  /\ traceFlusher = "async" /\ metricFlusher = "none"
  /\ signals = <<"resolve">>
  /\ Len(groups) = 1 /\ groups[1].trace = "rejected"
  /\ ContinuationRan(1)
  /\ hostPromise = [state |-> "resolved", val |-> ResR2]

(***************************************************************************)
(* SpecConcurrent: one wrapper, several invocations in flight, each with   *)
(* the completion signals of its own handler.  The span is a const and     *)
(* spanEnded a let of the patchedHandler call; wrappedCallback, the        *)
(* promise reactions and isSpanEnded are closures created in that call.    *)
(* Each invocation record keeps, next to its flag, the invocations whose   *)
(* signals called span.end() on its span (ends), passed its span to the    *)
(* response hook (hooks) and set its flag (flagBy).  The flush is left     *)
(* out: a continuation is released when its signal is handled.             *)
(***************************************************************************)
\* each patchedHandler call shares one span and one flag with the calls before it
closureOfWrapper(i) == 1

\* the invocation whose span and spanEnded the closures of invocation i refer to
closureOf(i) == i

InitConcurrent ==
  /\ traceFlusher = "none"
  /\ metricFlusher = "none"
  /\ requestHook = "none"
  /\ responseHook \in {"none", "ok"}
  /\ failure = ErrBoom
  /\ initializationType = "on-demand"
  /\ passedTimeSinceHandlerLoad = 0
  /\ InitWrapperState
  /\ InitPatchingState
  /\ InitRequestState
  /\ events = <<>>
  /\ originalCalls = <<>>
  /\ pc = "idle"
  /\ spanEnded = FALSE
  /\ span = NoSpan
  /\ reqHookCalls = 0
  /\ respHookCalls = <<>>
  /\ traceFlushCalls = 0
  /\ metricFlushCalls = 0
  /\ groups = <<>>
  /\ jobs = <<>>
  /\ handlerPromise = NoPromise
  /\ cbCalls = <<>>
  /\ cbThrew = 0
  /\ handlerRet = [kind |-> "none", val |-> Undefined]
  /\ signals = <<>>
  /\ hostRet = [kind |-> "none", val |-> Undefined]
  /\ hostPromise = NoPromise
  /\ hostCbCalls = <<>>

\* _applyResponseHook(span, ...) and _endSpan(span, ...) as a closure of
\* invocation i runs them: on the span that closure holds
endClosureSpan(invs, i) ==
  LET t == closureOf(i)
  IN [invs EXCEPT ![t].ends = Append(@, i),
                  ![t].hooks = IF responseHook # "none" THEN Append(@, i) ELSE @]

\* the handler of invocation i calls its wrappedCallback
CallbackSignal(i) ==
  /\ i \in 1..Len(invocations)
  /\ invocations[i].span.created
  /\ invocations[i].signalled < MaxSignals
  /\ invocations' = [endClosureSpan(invocations, i) EXCEPT ![i].signalled = @ + 1,
                                                           ![i].conts = @ + 1]
  /\ UNCHANGED <<config, requestHandledBefore, requestIsColdStart, invocation>>

\* the reaction on the promise of invocation i's handler runs: isSpanEnded()
\* reads the flag of its closure
PromiseSignal(i) ==
  /\ i \in 1..Len(invocations)
  /\ invocations[i].span.created
  /\ invocations[i].signalled < MaxSignals
  /\ invocations' =
       [(IF invocations[closureOf(i)].spanEnded THEN invocations
         ELSE endClosureSpan(invocations, i)) EXCEPT ![i].signalled = @ + 1]
  /\ UNCHANGED <<config, requestHandledBefore, requestIsColdStart, invocation>>

\* the continuation of a wrappedCallback call of invocation i runs:
\* onSpanEnded sets the flag of its closure
CallbackContinuation(i) ==
  /\ i \in 1..Len(invocations)
  /\ invocations[i].conts > 0
  /\ invocations' = [invocations EXCEPT ![i].conts = @ - 1,
                                        ![closureOf(i)].spanEnded = TRUE,
                                        ![closureOf(i)].flagBy = Append(@, i)]
  /\ UNCHANGED <<config, requestHandledBefore, requestIsColdStart, invocation>>

NextConcurrent ==
  \/ PatchedHandlerCalled(Extracted(ROOT_CONTEXT))
  \/ \E i \in 1..Len(invocations) : CallbackSignal(i)
  \/ \E i \in 1..Len(invocations) : PromiseSignal(i)
  \/ \E i \in 1..Len(invocations) : CallbackContinuation(i)

SpecConcurrent == InitConcurrent /\ [][NextConcurrent]_vars

\* the invocations named in a history of invocation k
Sources(h) == {h[j] : j \in 1..Len(h)}

\* C28: completion state is per invocation: with several invocations in flight,
\* every span.end() on an invocation's span, every response hook call with its
\* span and every write of its spanEnded flag comes from a completion signal of
\* that same invocation.
C28_CompletionStatePerInvocation ==
  \A k \in 1..Len(invocations) :
    /\ Sources(invocations[k].ends) \subseteq {k}
    /\ Sources(invocations[k].hooks) \subseteq {k}
    /\ Sources(invocations[k].flagBy) \subseteq {k}
    /\ invocations[k].spanEnded <=> invocations[k].flagBy # <<>>

\* three invocations in flight: the second has completed through its callback and
\* its flag is set, the first and the third have not received a signal
C28_Witness ==
  /\ Len(invocations) = 3
  /\ responseHook = "ok"
  /\ invocations[2].ends = <<2>> /\ invocations[2].hooks = <<2>>
  /\ invocations[2].spanEnded
  /\ \A k \in {1, 3} : invocations[k].signalled = 0 /\ ~invocations[k].spanEnded
                        /\ invocations[k].ends = <<>>

C30_HostCallbackOncePerWrappedCall ==
  /\ Len(hostCbCalls) <= Len(cbCalls)
  /\ \A k \in 1..Len(hostCbCalls) : hostCbCalls[k] = cbCalls[k]
  /\ (Quiescent /\ NoFlushPending) => hostCbCalls = cbCalls

(***************************************************************************)
(* SpecLive: the invocation of Spec with the scheduling that the           *)
(* JavaScript runtime and the hypothesis of the delivery claim give: a     *)
(* handler's synchronous part ends, a queued microtask is run, and a       *)
(* pending force-flush promise settles.  Whether the handler calls the     *)
(* callback or settles its promise is left open.  Hooks are left out.      *)
(***************************************************************************)
InitLive ==
  /\ Init
  /\ requestHook = "none"
  /\ responseHook = "none"
  /\ failure = ErrBoom

\* some pending force-flush promise settles
SomeFlushSettles ==
  \E i \in 1..Len(groups), which \in {"trace", "metric"}, outcome \in {"fulfilled", "rejected"} :
    FlushSettles(i, which, outcome)

\* the synchronous part of the handler ends: it returns or throws
HandlerEnds ==
  \/ \E v \in ReturnVals : HandlerReturnsValue(v)
  \/ HandlerReturnsPromise
  \/ \E e \in Failures : HandlerThrows(e)

SpecLive ==
  /\ InitLive
  /\ [][Next]_vars
  /\ WF_vars(HandlerEnds)
  /\ WF_vars(RunThen)
  /\ WF_vars(RunContinuation)
  /\ WF_vars(SomeFlushSettles)

\* the promise the handler returned has settled
HandlerPromiseSettled == handlerPromise.state \in {"resolved", "rejected"}
\* the promise the patched handler returned has settled
HostPromiseSettled == hostPromise.state \in {"resolved", "rejected"}

\* C31: if the handler fires a completion signal and every force-flush promise
\* eventually settles, the outcome is eventually delivered to the host: the
\* promise returned by the patched handler eventually settles, respectively the
\* original callback is eventually invoked.
C31_OutcomeEventuallyDelivered ==
  /\ HandlerPromiseSettled ~> HostPromiseSettled
  /\ (cbCalls # <<>>) ~> (hostCbCalls # <<>>)

\* ---------------------------------------------------------------------------
\* Patching the handler's module: AwsLambdaInstrumentation's patch and unpatch

\* the calls of patch and unpatch followed for one module
MaxModuleOps == 3

AWS_HANDLER_STREAMING_SYMBOL == "aws.lambda.runtime.handler.streaming"
AWS_HANDLER_STREAMING_RESPONSE == "response"
\* the own symbol properties a handler function may carry
SymbolTables ==
  {NoSymbols}
    \cup [{AWS_HANDLER_STREAMING_SYMBOL} -> {AWS_HANDLER_STREAMING_RESPONSE, "x"}]
    \cup [{"other"} -> {"x"}]
    \cup [{AWS_HANDLER_STREAMING_SYMBOL, "other"} -> {AWS_HANDLER_STREAMING_RESPONSE, "x"}]

\* a function's own properties are those of its outermost layer
top(f) == f[Len(f)]
\* what a wrapper calls as its original: the function it was created around
inner(f) == SubSeq(f, 1, Len(f) - 1)
isFunction(f) == f # Undefined_fn

isStreamingHandler(handler) ==
  /\ AWS_HANDLER_STREAMING_SYMBOL \in DOMAIN top(handler).symbols
  /\ top(handler).symbols[AWS_HANDLER_STREAMING_SYMBOL] = AWS_HANDLER_STREAMING_RESPONSE

\* a wrapper that carries none of its original's symbols
copiesNoSymbols(original) == NoSymbols

\* the symbol properties the new wrapper receives from its original
copiedSymbols(original) ==
  IF isStreamingHandler(original) THEN top(original).symbols ELSE NoSymbols

\* the function _getPatchHandler returns for this original, with the symbols copied
getHandler(original) ==
  [name |-> IF isStreamingHandler(original) THEN "patchedStreamingHandler"
            ELSE "patchedHandler",
   length |-> 3,
   symbols |-> copiedSymbols(original),
   shimmer |-> FALSE]

\* shimmer: a wrapped function carries __original, __unwrap and __wrapped
isWrapped(f) == top(f).shimmer
\* shimmer's unwrap puts __original back; without __unwrap it logs and does nothing
unwrap(f) == IF top(f).shimmer THEN inner(f) ELSE f
\* this._wrap(actualExports, functionName, this._getHandler(lambdaStartTime)):
\* InstrumentationBase._wrap unwraps a wrapped function first, then shimmer.wrap
\* installs the wrapper and marks it
wrap(f) ==
  LET base == IF isWrapped(f) THEN unwrap(f) ELSE f
  IN Append(base, [getHandler(base) EXCEPT !.shimmer = TRUE])

\* the object whose property the patch function replaces
extractModuleExports(m) ==
  [isESM |-> m.isESM,
   actualExports |-> IF m.isESM /\ m.hasDefault THEN "default" ELSE "moduleExports"]

\* the patch function given to InstrumentationNodeModuleDefinition
patch(m) ==
  LET isESM == extractModuleExports(m).isESM
      exported == IF isWrapped(m.handler) THEN unwrap(m.handler) ELSE m.handler
      wrappedHandler == Append(exported, getHandler(exported))
  IN IF isESM
     THEN IF m.definable
          THEN [m EXCEPT !.handler = wrappedHandler]
          ELSE IF m.hasDefault /\ m.replaceable
               THEN [m EXCEPT !.handler = wrappedHandler, !.definable = TRUE]
               ELSE [m EXCEPT !.handler = exported]
     ELSE [m EXCEPT !.handler = wrap(exported)]

\* the unpatch function
unpatch(m) == [m EXCEPT !.handler = unwrap(m.handler)]

Modules ==
  [isESM : {FALSE}, hasDefault : {FALSE}, definable : {TRUE}, replaceable : {TRUE},
   handler : {<<originalHandler>>}]
    \cup [isESM : {TRUE}, hasDefault : BOOLEAN, definable : BOOLEAN,
          replaceable : BOOLEAN, handler : {<<originalHandler>>}]

\* no invocation is followed while modules are patched
InitNoInvocation ==
  /\ traceFlusher = "none"
  /\ metricFlusher = "none"
  /\ requestHook = "none"
  /\ responseHook = "none"
  /\ failure = ErrBoom
  /\ initializationType = "on-demand"
  /\ passedTimeSinceHandlerLoad = 0
  /\ InitWrapperState
  /\ InitRequestState
  /\ events = <<>>
  /\ originalCalls = <<>>
  /\ pc = "idle"
  /\ spanEnded = FALSE
  /\ span = NoSpan
  /\ reqHookCalls = 0
  /\ respHookCalls = <<>>
  /\ traceFlushCalls = 0
  /\ metricFlushCalls = 0
  /\ groups = <<>>
  /\ jobs = <<>>
  /\ handlerPromise = NoPromise
  /\ cbCalls = <<>>
  /\ cbThrew = 0
  /\ handlerRet = [kind |-> "none", val |-> Undefined]
  /\ signals = <<>>
  /\ hostRet = [kind |-> "none", val |-> Undefined]
  /\ hostPromise = NoPromise
  /\ hostCbCalls = <<>>

InitLoader ==
  /\ InitNoInvocation
  /\ lambdaEnv = TRUE
  /\ InitRoutingState
  /\ originalHandler \in [name : {functionName}, length : {3}, symbols : SymbolTables,
                          shimmer : {FALSE}]
  /\ moduleExports \in Modules
  /\ moduleOps = <<>>

\* the module loader hook calls the patch function with the module's exports
Patch ==
  /\ Len(moduleOps) < MaxModuleOps
  /\ moduleExports' = patch(moduleExports)
  /\ moduleOps' = Append(moduleOps, "patch")
  /\ UNCHANGED <<setup, request, initializationType, passedTimeSinceHandlerLoad,
                 originalHandler, routing, wrapper, invocation>>

\* disabling the instrumentation calls the unpatch function
Unpatch ==
  /\ Len(moduleOps) < MaxModuleOps
  /\ moduleExports' = unpatch(moduleExports)
  /\ moduleOps' = Append(moduleOps, "unpatch")
  /\ UNCHANGED <<setup, request, initializationType, passedTimeSinceHandlerLoad,
                 originalHandler, routing, wrapper, invocation>>

NextLoader == Patch \/ Unpatch

SpecLoader == InitLoader /\ [][NextLoader]_vars

\* the exported handler is one wrapper around the user's function
SingleWrapper == moduleExports.handler = <<originalHandler, top(moduleExports.handler)>>
\* the spans one invocation of the exported handler creates: one per wrapper
spansPerInvocation == Len(moduleExports.handler) - 1

\* C33: after the patch function has been applied twice to the same module
\* exports, the exported handler is a single wrapper around the original handler
\* and one invocation creates one span, for CommonJS and ESM modules.
C33_SecondPatchNeverNests ==
  (moduleOps = <<"patch", "patch">> /\ moduleExports.hasDefault /\ moduleExports.definable)
    => (SingleWrapper /\ spansPerInvocation = 1)

\* C34: patching a module and then unpatching it restores the original handler
\* as the module's exported function, for CommonJS and ESM modules alike.
C34_UnpatchRestoresOriginal ==
  (moduleOps = <<"patch", "unpatch">> /\ moduleExports.hasDefault /\ moduleExports.definable)
    => moduleExports.handler = <<originalHandler>>

\* the wrappers now around the user's function
WrapperLayers == {moduleExports.handler[k] : k \in 2..Len(moduleExports.handler)}

\* C36: wrapping a streaming handler preserves its streaming marker: every own
\* symbol property of the original handler is present with the same value on
\* the patched handler, which is still recognised as a streaming handler.
C36_StreamingMarkerPreserved ==
  isStreamingHandler(<<originalHandler>>) =>
    /\ \A w \in WrapperLayers :
         \A k \in DOMAIN originalHandler.symbols :
           k \in DOMAIN w.symbols /\ w.symbols[k] = originalHandler.symbols[k]
    /\ isStreamingHandler(moduleExports.handler)

C36_Witness ==
  /\ isStreamingHandler(<<originalHandler>>)
  /\ "other" \in DOMAIN originalHandler.symbols
  /\ moduleExports.isESM
  /\ Len(moduleExports.handler) = 3

\* ---------------------------------------------------------------------------
\* The patching routes of CustomAwsLambdaInstrumentation, CommonJS path

\* the route firings and host invocations followed after construction
MaxRoutes == 4

\* what the interceptors and _patchHandler read and write
Routing ==
  [originalHandlers |-> originalHandlers, wrappersCreated |-> wrappersCreated,
   globalHandler |-> globalHandler, exportsHandler |-> exportsHandler,
   definePropertyFn |-> definePropertyFn, functionCallFn |-> functionCallFn,
   interceptorPatched |-> interceptorPatched, directPatched |-> directPatched,
   exportsProxied |-> exportsProxied, globalProxied |-> globalProxied]

SetRouting(s) ==
  /\ originalHandlers' = s.originalHandlers
  /\ wrappersCreated' = s.wrappersCreated
  /\ globalHandler' = s.globalHandler
  /\ exportsHandler' = s.exportsHandler
  /\ definePropertyFn' = s.definePropertyFn
  /\ functionCallFn' = s.functionCallFn
  /\ interceptorPatched' = s.interceptorPatched
  /\ directPatched' = s.directPatched
  /\ exportsProxied' = s.exportsProxied
  /\ globalProxied' = s.globalProxied

\* a registry that recognises a name only once two wrappers exist
registryHasAfterTwo(s) == s.wrappersCreated >= 2

\* this._originalHandlers.has(handlerName): every caller passes functionName
registryHas(s) == s.originalHandlers # <<>>

isHandlerFunction(s, fn) ==
  /\ top(fn).length >= 2
  /\ top(fn).length <= 3
  /\ ~(top(fn).name = functionName /\ registryHas(s))
  /\ lambdaEnv

RECURSIVE patchHandler(_, _)
RECURSIVE exportsSet(_, _)
RECURSIVE globalSet(_, _)

\* _patchHandler(originalHandler, functionName): the state it leaves and the
\* function it returns
patchHandler(s, original) ==
  IF registryHas(s)
  THEN [state |-> s, value |-> original]
  ELSE LET instrumentedHandler == Append(original, getHandler(original))
           stored == [s EXCEPT !.originalHandlers = <<original>>,
                               !.wrappersCreated = @ + 1]
           onGlobal == IF isFunction(stored.globalHandler)
                       THEN globalSet(stored, instrumentedHandler)
                       ELSE stored
       IN [state |-> exportsSet(onGlobal, instrumentedHandler),
           value |-> instrumentedHandler]

\* module.exports[functionName] = value: through the Proxy's set trap once
\* _setupHandlerInterceptor has replaced module.exports
exportsSet(s, value) ==
  IF s.exportsProxied /\ ~s.interceptorPatched /\ isHandlerFunction(s, value)
  THEN LET r == patchHandler(s, value)
       IN [r.state EXCEPT !.interceptorPatched = TRUE,
                          !.definePropertyFn = "builtin",
                          !.exportsHandler = r.value]
  ELSE [s EXCEPT !.exportsHandler = value]

\* globalThis[functionName] = value: through the Proxy's set trap once
\* _setupDirectHandlerInterceptor has replaced global.globalThis
globalSet(s, value) ==
  IF s.globalProxied /\ ~s.directPatched /\ isHandlerFunction(s, value)
  THEN LET r == patchHandler(s, value)
       IN [r.state EXCEPT !.directPatched = TRUE, !.globalHandler = r.value]
  ELSE [s EXCEPT !.globalHandler = value]

\* Object.defineProperty(target, functionName, {value}): the descriptor's value
\* that reaches the built-in, and the state the call leaves
defineProperty(s, value) ==
  IF s.definePropertyFn = "interceptor" /\ ~s.interceptorPatched
     /\ isHandlerFunction(s, value)
  THEN LET r == patchHandler(s, value)
       IN [state |-> [r.state EXCEPT !.interceptorPatched = TRUE,
                                     !.definePropertyFn = "builtin"],
           value |-> r.value]
  ELSE [state |-> s, value |-> value]

\* fn.call(...) and fn.apply(...) with at least two arguments: the function that
\* runs, and the state the call leaves
functionCall(s, fn) ==
  IF s.functionCallFn = "interceptor" /\ ~s.directPatched
     /\ top(fn).name = functionName /\ top(fn).length >= 2
  THEN LET r == patchHandler(s, fn)
       IN [state |-> [r.state EXCEPT !.directPatched = TRUE,
                                     !.functionCallFn = "builtin"],
           value |-> r.value]
  ELSE [state |-> s, value |-> fn]

\* _patchSpecificHandler: global scope, then module.exports, then the module cache
patchSpecificHandler(s) ==
  IF isFunction(s.globalHandler) THEN patchHandler(s, s.globalHandler).state
  ELSE IF isFunction(s.exportsHandler) THEN patchHandler(s, s.exportsHandler).state
  ELSE IF isFunction(moduleHandler) THEN patchHandler(s, moduleHandler).state
  ELSE s

\* _setupDirectHandlerInterceptor
setupDirectHandlerInterceptor(s) ==
  IF isFunction(s.globalHandler)
  THEN LET r == patchHandler(s, s.globalHandler)
       IN globalSet(r.state, r.value)
  ELSE [s EXCEPT !.directPatched = FALSE, !.globalProxied = TRUE,
                 !.functionCallFn = "interceptor"]

\* _setupHandlerInterceptor
setupHandlerInterceptor(s) ==
  setupDirectHandlerInterceptor(
    [s EXCEPT !.interceptorPatched = FALSE, !.definePropertyFn = "interceptor",
              !.exportsProxied = TRUE])

\* the user functions the handler under test may be
UserHandlers ==
  [name : {functionName, "main"}, length : {1, 3},
   symbols : {NoSymbols,
              [k \in {AWS_HANDLER_STREAMING_SYMBOL} |-> AWS_HANDLER_STREAMING_RESPONSE]},
   shimmer : {FALSE}]

InitRoutes ==
  /\ InitNoInvocation
  /\ InitLoaderState
  /\ InitRoutingState
  /\ lambdaEnv \in BOOLEAN
  /\ originalHandler \in UserHandlers

Fired(route) ==
  /\ Len(routes) < MaxRoutes
  /\ routes' = Append(routes, route)

\* _setupAutomaticHandlerPatching, CommonJS branch: _patchSpecificHandler, then
\* _setupHandlerInterceptor with the interceptors it installs
SetupAutomaticHandlerPatching ==
  /\ ~isInstrumented
  /\ Fired("init")
  /\ SetRouting(setupHandlerInterceptor(patchSpecificHandler(Routing)))
  /\ isInstrumented' = TRUE
  /\ intervalActive' = TRUE
  /\ UNCHANGED <<setup, request, initializationType, passedTimeSinceHandlerLoad,
                 originalHandler, loader, lambdaEnv, moduleHandler, hostSpans,
                 wrapper, invocation>>

\* user code assigns the handler to globalThis
GlobalAssigned ==
  /\ ~isFunction(globalHandler)
  /\ Fired("globalThis")
  /\ SetRouting(globalSet(Routing, <<originalHandler>>))
  /\ UNCHANGED <<setup, request, initializationType, passedTimeSinceHandlerLoad,
                 originalHandler, loader, lambdaEnv, isInstrumented, moduleHandler,
                 intervalActive, hostSpans, wrapper, invocation>>

\* the handler is assigned to module.exports of the instrumentation's module
ExportsAssigned ==
  /\ ~isFunction(exportsHandler)
  /\ Fired("module.exports")
  /\ SetRouting(exportsSet(Routing, <<originalHandler>>))
  /\ UNCHANGED <<setup, request, initializationType, passedTimeSinceHandlerLoad,
                 originalHandler, loader, lambdaEnv, isInstrumented, moduleHandler,
                 intervalActive, hostSpans, wrapper, invocation>>

\* the user's module defines its handler export with Object.defineProperty
DefinePropertyCalled ==
  /\ ~isFunction(moduleHandler)
  /\ Fired("defineProperty")
  /\ LET r == defineProperty(Routing, <<originalHandler>>)
     IN /\ SetRouting(r.state)
        /\ moduleHandler' = r.value
  /\ UNCHANGED <<setup, request, initializationType, passedTimeSinceHandlerLoad,
                 originalHandler, loader, lambdaEnv, isInstrumented,
                 intervalActive, hostSpans, wrapper, invocation>>

\* the user's module assigns its handler export
ModuleAssigned ==
  /\ ~isFunction(moduleHandler)
  /\ Fired("export")
  /\ moduleHandler' = <<originalHandler>>
  /\ SetRouting(Routing)
  /\ UNCHANGED <<setup, request, initializationType, passedTimeSinceHandlerLoad,
                 originalHandler, loader, lambdaEnv, isInstrumented,
                 intervalActive, hostSpans, wrapper, invocation>>

\* the handler export of a loaded module is patched and written back
patchInModule(route) ==
  /\ isInstrumented
  /\ isFunction(moduleHandler)
  /\ Fired(route)
  /\ LET r == patchHandler(Routing, moduleHandler)
     IN /\ SetRouting(r.state)
        /\ moduleHandler' = r.value
  /\ UNCHANGED <<setup, request, initializationType, passedTimeSinceHandlerLoad,
                 originalHandler, loader, lambdaEnv, isInstrumented,
                 intervalActive, hostSpans, wrapper, invocation>>

\* the replaced global.require (or global.import) returns the user's module
RequireOrImport == patchInModule("require")

\* the timer that the replaced require.resolve started fires
ResolveTimer == patchInModule("resolve")

\* one tick of the interval of _setupFallbackInterceptor that finds a handler
FallbackInterval ==
  /\ intervalActive
  /\ isFunction(moduleHandler) \/ isFunction(globalHandler)
  /\ Fired("interval")
  /\ LET inModule == IF isFunction(moduleHandler)
                     THEN patchHandler(Routing, moduleHandler)
                     ELSE [state |-> Routing, value |-> moduleHandler]
         s == inModule.state
         inGlobal == IF isFunction(s.globalHandler)
                     THEN LET r == patchHandler(s, s.globalHandler)
                          IN globalSet(r.state, r.value)
                     ELSE s
     IN /\ SetRouting(inGlobal)
        /\ moduleHandler' = inModule.value
  /\ intervalActive' = FALSE
  /\ UNCHANGED <<setup, request, initializationType, passedTimeSinceHandlerLoad,
                 originalHandler, loader, lambdaEnv, isInstrumented,
                 hostSpans, wrapper, invocation>>

\* the 30 s timer clears the interval
IntervalTimeout ==
  /\ intervalActive
  /\ Fired("timeout")
  /\ intervalActive' = FALSE
  /\ SetRouting(Routing)
  /\ UNCHANGED <<setup, request, initializationType, passedTimeSinceHandlerLoad,
                 originalHandler, loader, lambdaEnv, isInstrumented, moduleHandler,
                 hostSpans, wrapper, invocation>>

RECURSIVE run(_, _)
\* running a function: each wrapper creates a span and applies its original
run(s, fn) ==
  IF Len(fn) = 1
  THEN [state |-> s, spans |-> 0]
  ELSE LET applied == functionCall(s, inner(fn))
           rest == run(applied.state, applied.value)
       IN [state |-> rest.state, spans |-> rest.spans + 1]

\* the host invokes the handler exported by the user's module, directly or
\* through Function.prototype.call
HostInvokes(how) ==
  /\ isInstrumented
  /\ isFunction(moduleHandler)
  /\ Fired(how)
  /\ LET called == IF how = "call"
                   THEN functionCall(Routing, moduleHandler)
                   ELSE [state |-> Routing, value |-> moduleHandler]
         ran == run(called.state, called.value)
     IN /\ SetRouting(ran.state)
        /\ hostSpans' = Append(hostSpans, ran.spans)
  /\ UNCHANGED <<setup, request, initializationType, passedTimeSinceHandlerLoad,
                 originalHandler, loader, lambdaEnv, isInstrumented, moduleHandler,
                 intervalActive, wrapper, invocation>>

NextRoutes ==
  \/ SetupAutomaticHandlerPatching
  \/ GlobalAssigned
  \/ ExportsAssigned
  \/ DefinePropertyCalled
  \/ ModuleAssigned
  \/ RequireOrImport
  \/ ResolveTimer
  \/ FallbackInterval
  \/ IntervalTimeout
  \/ \E how \in {"direct", "call"} : HostInvokes(how)

SpecRoutes == InitRoutes /\ [][NextRoutes]_vars

\* the function values the program holds
HeldHandlers == {globalHandler, exportsHandler, moduleHandler} \ {Undefined_fn}

\* C32: after any sequence of firings of the patching routes a handler name is
\* wrapped at most once: _patchHandler creates at most one wrapper, never around
\* an instrumented handler, and no host invocation produces two nested spans.
C32_HandlerWrappedAtMostOnce ==
  /\ wrappersCreated <= 1
  /\ originalHandlers \in {<<>>, <<<<originalHandler>>>>}
  /\ \A fn \in HeldHandlers : Len(fn) <= 2
  /\ \A i \in DOMAIN hostSpans : hostSpans[i] <= 1

C32_Witness ==
  /\ wrappersCreated = 1
  /\ \E i, j \in DOMAIN routes :
       /\ i < j
       /\ routes[i] \in {"require", "resolve", "interval", "defineProperty"}
       /\ routes[j] \in {"require", "resolve", "interval"}
  /\ \E i \in DOMAIN hostSpans : hostSpans[i] = 1

\* C35: in the CommonJS path, once the handler has been patched,
\* Object.defineProperty is the built-in function again, whichever route
\* performed the patch.
C35_DefinePropertyRestored ==
  (isInstrumented /\ lambdaEnv /\ originalHandlers # <<>>) => definePropertyFn = "builtin"

====
